---- MODULE Spec2Model ----
(***************************************************************************)
(* A model of the transcript rendering engine of cl-pprint                 *)
(* (src/format_jsonl.py): the plan replay of parse_entries, the second     *)
(* (entry) pass, the multiple-choice formatter, the plan diff, the         *)
(* rendering loop of format_jsonl and add_navigation_links.                *)
(*                                                                         *)
(* Python strings are sequences of atoms (characters, words or lines,      *)
(* whichever the operation at hand looks at); Python's None is the empty   *)
(* tuple None and a present value v is Some(v) = <<v>>.                    *)
(***************************************************************************)
EXTENDS Integers, Sequences, FiniteSets, TLC

VARIABLES
    phase,                  \* which operation the state belongs to, and how far it is
    current_plan_content,   \* parse_entries: the plan buffer (None | Some(string))
    plan_timeline,          \* parse_entries: the revisions, in submission order
    exit_plan_modes,        \* parse_entries: tool_id -> plan info (after the pass)
    replayed,               \* history: the ExitPlanMode invocations read so far, in
                            \* log order, each with the plan buffer it was read at
    outcomes,               \* history: for each revision, the text of the first tool
                            \* outcome with its id read after it (None | Some(text))
    touched,                \* history: a Write on a plan path or an Edit that applies
                            \* was read since the last ExitPlanMode invocation
    tool_input,             \* format_ask_user_question_with_answer: the question
    answer_content,         \* format_ask_user_question_with_answer: the answer text
    ask_output,             \* format_ask_user_question_with_answer: the lines returned
    log_lines,              \* parse_entries, second pass: the lines of the log file
    line_num,               \* parse_entries, second pass: the lines read so far
    entries,                \* parse_entries, second pass: the entries collected
    rejected_plan,          \* get_plan_diff: the first text (None | Some(lines))
    approved_plan,          \* get_plan_diff: the second text (None | Some(lines))
    raw_lines,              \* get_plan_diff: the lines of the diff before the filter
    diff_result,            \* get_plan_diff: what it returned (None | Some(lines))
    plan_args,              \* format_plan_result: content, is_approved and plan_index
    plan_result,            \* format_plan_result: the lines of what it returned
    log,                    \* format_jsonl: the entries parse_entries returned
    show_tools,             \* format_jsonl: the option of that name
    output_lines,           \* format_jsonl: the lines before add_navigation_links
    document,               \* format_jsonl: result, the lines of the document returned
    plan_turns,             \* format_jsonl: user_has_plan when the loop has ended
    options,                \* extract_message_content: show_thinking and the two
                            \* subagent options
    extracted,              \* extract_message_content: what it returned
    tool_id_to_name,        \* format_jsonl: the dictionary of the call that returned
    earlier,                \* history: the input and the result of the call before
    sections                \* history: the sections emitted, each with the numbers
                            \* of the entries it renders

planVars == <<current_plan_content, plan_timeline, exit_plan_modes, replayed, outcomes,
              touched>>
askVars == <<tool_input, answer_content, ask_output>>
parseVars == <<log_lines, line_num, entries>>
diffVars == <<rejected_plan, approved_plan, raw_lines, diff_result, plan_args,
              plan_result>>
renderVars == <<log, show_tools, output_lines, document, plan_turns, options, extracted,
                tool_id_to_name, earlier, sections>>
vars == <<phase, planVars, askVars, parseVars, diffVars, renderVars>>

\* What the steps of one operation leave alone.
exceptPlan == <<askVars, parseVars, diffVars, renderVars>>
exceptAsk == <<planVars, parseVars, diffVars, renderVars>>
exceptParse == <<planVars, askVars, diffVars, renderVars>>
exceptDiff == <<planVars, askVars, parseVars, renderVars>>
exceptRender == <<planVars, askVars, parseVars, diffVars>>

----------------------------------------------------------------------------
(* Python values *)

None == <<>>
Some(v) == <<v>>
IsNone(o) == o = <<>>
Val(o) == o[1]

\* The element of a set of one element; with {e(x) : x \in {v}} it names a
\* value v that e uses more than once.
The(S) == CHOOSE x \in S : TRUE

\* Python truthiness of an optional string: None and '' are falsy.
Truthy(o) == o # None /\ Val(o) # <<>>

RECURSIVE SeqsUpTo(_, _)
SeqsUpTo(S, n) ==
    IF n = 0 THEN {<<>>}
    ELSE LET shorter == SeqsUpTo(S, n - 1)
         IN  shorter \cup {Append(s, x) : s \in {t \in shorter : Len(t) = n - 1}, x \in S}

\* s[i..j] (1-based, inclusive), the empty string when i > j.
Slice(s, i, j) == [k \in 1..(j - i + 1) |-> s[i + k - 1]]

\* sub occurs in s at 1-based position i.
OccursAt(s, sub, i) ==
    /\ i >= 1
    /\ i + Len(sub) - 1 <= Len(s)
    /\ \A k \in 1..Len(sub) : s[i + k - 1] = sub[k]

\* Python's `sub in s`; the empty string is in every string.
Contains(s, sub) == \E i \in 1..(Len(s) + 1) : OccursAt(s, sub, i)

FirstIndex(s, sub) ==
    CHOOSE i \in 1..(Len(s) + 1) :
        OccursAt(s, sub, i) /\ \A j \in 1..(i - 1) : ~OccursAt(s, sub, j)

\* Python's s.replace(old, new, 1).
ReplaceFirst(s, old, new) ==
    IF ~Contains(s, old) THEN s
    ELSE LET i == FirstIndex(s, old)
         IN  Slice(s, 1, i - 1) \o new \o Slice(s, i + Len(old), Len(s))

----------------------------------------------------------------------------
(* parse_entries, first pass: the plan timeline (src/format_jsonl.py 478-544) *)

\* The most plan submissions a log of the model holds.
MaxPlans == 2
\* An absolute file path as its segments: "/docs/plans/p.md" is
\* <<"docs", "plans", "p.md">>.
PlanDirPath   == <<"docs", "plans", "p.md">>
PlanSuffix    == <<"docs", "my-plan.md">>
NotPlanDir    == <<"myplans", "p.md">>
OtherPath     == <<"src", "plans.md">>
Paths == {PlanDirPath, PlanSuffix, NotPlanDir, OtherPath}

\* segment.endswith('-plan.md'), for the segments of the model.
EndsWithPlanMd(seg) == seg \in {"my-plan.md", "-plan.md"}

\* '/plans/' in file_path or file_path.endswith('-plan.md')
IsPlanPath(path) ==
    \/ \E i \in 1..(Len(path) - 1) : path[i] = "plans"
    \/ Len(path) > 0 /\ EndsWithPlanMd(path[Len(path)])

\* The plan texts written and the strings edited, over the characters a, b, c.
Contents == {<<>>, <<"a", "b", "a">>}
OldStrings == {<<>>, <<"a">>, <<"c">>}
NewStrings == {<<"b", "b">>}
\* The tool ids of the plan submissions and of the outcomes.
ToolIds == {"toolu_1", "toolu_2"}

\* The words of an outcome's text; str.lower() word by word.
Lower(w) == CASE w = "Approved" -> "approved"
              [] w = "Rejected" -> "rejected"
              [] w = "A" -> "a"
              [] w = "B" -> "b"
              [] w = "Q" -> "q"
              [] w = "Let" -> "let"
              [] w = "Context" -> "context"
              [] OTHER -> w
LowerStr(s) == [i \in 1..Len(s) |-> Lower(s[i])]
ResultTexts == {<<"User", "has", "Approved", "your", "plan">>,
                <<"rejected", "by", "user">>}

\* The same with the test of the path left out.
ApplyWriteAnywhere(cur, path, content) == Some(content)
\* tool_name == 'Write' (497-501)
ApplyWrite(cur, path, content) ==
    IF IsPlanPath(path) THEN Some(content) ELSE cur

\* s.replace(old, new): every occurrence, left to right (old is not empty).
RECURSIVE ReplaceEvery(_, _, _)
ReplaceEvery(s, old, new) ==
    IF ~Contains(s, old) THEN s
    ELSE LET i == FirstIndex(s, old)
         IN  Slice(s, 1, i - 1) \o new
                \o ReplaceEvery(Slice(s, i + Len(old), Len(s)), old, new)

\* tool_name == 'Edit' (503-511)
ApplyEditEvery(cur, path, old, new) ==
    IF IsPlanPath(path) /\ Truthy(cur) /\ old # <<>> /\ Contains(Val(cur), old)
    THEN Some(ReplaceEvery(Val(cur), old, new))
    ELSE cur
ApplyEdit(cur, path, old, new) ==
    IF IsPlanPath(path) /\ Truthy(cur) /\ old # <<>> /\ Contains(Val(cur), old)
    THEN Some(ReplaceFirst(Val(cur), old, new))
    ELSE cur

\* tool_name == 'ExitPlanMode' (513-518)
SnapshotPlan(timeline, tool_id, cur) ==
    Append(timeline, [tool_id |-> tool_id, content |-> cur, approved |-> None])

\* 'approved' in result_text.lower()
SaysApproved(text) == Contains(LowerStr(text), <<"approved">>)

\* The same with `plan['approved'] is None` left out: a later outcome
\* overwrites the flag.
ResolveApprovalAgain(timeline, tool_id, text) ==
    LET hits == {k \in 1..Len(timeline) : timeline[k].tool_id = tool_id}
    IN  IF hits = {} THEN timeline
        ELSE LET k == CHOOSE h \in hits : \A g \in hits : h <= g
             IN  [timeline EXCEPT ![k].approved = Some(SaysApproved(text))]
\* type == 'tool_result' (520-528): the first unresolved revision with the id.
ResolveApproval(timeline, tool_id, text) ==
    LET hits == {k \in 1..Len(timeline) :
                    timeline[k].tool_id = tool_id /\ timeline[k].approved = None}
    IN  IF hits = {} THEN timeline
        ELSE LET k == CHOOSE h \in hits : \A g \in hits : h <= g
             IN  [timeline EXCEPT ![k].approved = Some(SaysApproved(text))]

\* `not plan['approved']`: None and False are falsy.
NotApproved(plan) == plan.approved # Some(TRUE)

\* Build exit_plan_modes (532-544): a later revision with the same tool id
\* overwrites an earlier one.
PlanInfoShifted(timeline, i) ==
    [content    |-> timeline[i].content,
     next_plan  |-> IF NotApproved(timeline[i]) /\ i + 1 <= Len(timeline)
                    THEN timeline[i + 1].content ELSE None,
     approved   |-> timeline[i].approved,
     plan_index |-> i]
\* The same, a successor linked only when it was approved.
PlanInfoToApproved(timeline, i) ==
    [content    |-> timeline[i].content,
     next_plan  |-> IF NotApproved(timeline[i]) /\ i + 1 <= Len(timeline)
                       /\ timeline[i + 1].approved = Some(TRUE)
                    THEN timeline[i + 1].content ELSE None,
     approved   |-> timeline[i].approved,
     plan_index |-> i - 1]
PlanInfo(timeline, i) ==
    [content    |-> timeline[i].content,
     next_plan  |-> IF NotApproved(timeline[i]) /\ i + 1 <= Len(timeline)
                    THEN timeline[i + 1].content ELSE None,
     approved   |-> timeline[i].approved,
     plan_index |-> i - 1]

BuildExitPlanModes(timeline) ==
    LET ids == {timeline[k].tool_id : k \in 1..Len(timeline)}
        last(id) == CHOOSE k \in 1..Len(timeline) :
                        /\ timeline[k].tool_id = id
                        /\ \A g \in 1..Len(timeline) :
                               timeline[g].tool_id = id => g <= k
    IN  [id \in ids |-> PlanInfo(timeline, last(id))]

NoPlans == [id \in {} |-> None]

\* An Edit that applies: on a plan path, its old_string not empty and found
\* in a buffer that is not empty.
EditApplies(cur, path, old) ==
    /\ IsPlanPath(path)
    /\ cur # None /\ Val(cur) # <<>>
    /\ old # <<>> /\ Contains(Val(cur), old)

\* The state before parse_entries is called.
NothingParsed ==
    /\ current_plan_content = None
    /\ plan_timeline = <<>>
    /\ exit_plan_modes = NoPlans
    /\ replayed = <<>>
    /\ outcomes = <<>>
    /\ touched = FALSE

\* The state before format_ask_user_question_with_answer is called.
NothingAsked ==
    /\ tool_input = <<>>
    /\ answer_content = <<>>
    /\ ask_output = <<>>

\* The state before the second pass of parse_entries.
NothingRead ==
    /\ log_lines = <<>>
    /\ line_num = 0
    /\ entries = <<>>

\* The state before get_plan_diff is called.
NothingDiffed ==
    /\ rejected_plan = None
    /\ approved_plan = None
    /\ raw_lines = <<>>
    /\ diff_result = None
    /\ plan_args = <<>>
    /\ plan_result = <<>>

\* The state before format_jsonl is called.
NothingRendered ==
    /\ log = <<>>
    /\ show_tools = FALSE
    /\ output_lines = <<>>
    /\ document = <<>>
    /\ plan_turns = {}
    /\ options = <<>>
    /\ extracted = <<>>
    /\ tool_id_to_name = <<>>
    /\ earlier = <<>>
    /\ sections = <<>>

\* No operation but the one of the name has touched the state.
OnlyPlan == NothingAsked /\ NothingRead /\ NothingDiffed /\ NothingRendered
OnlyAsk == NothingParsed /\ NothingRead /\ NothingDiffed /\ NothingRendered
OnlyParse == NothingParsed /\ NothingAsked /\ NothingDiffed /\ NothingRendered
OnlyDiff == NothingParsed /\ NothingAsked /\ NothingRead /\ NothingRendered
OnlyRender == NothingParsed /\ NothingAsked /\ NothingRead /\ NothingDiffed

InitPlan ==
    /\ phase = "replay"
    /\ NothingParsed
    /\ OnlyPlan

ReplayWrite(path, content) ==
    /\ phase = "replay"
    /\ current_plan_content' = ApplyWrite(current_plan_content, path, content)
    /\ touched' = (touched \/ IsPlanPath(path))
    /\ UNCHANGED <<phase, plan_timeline, exit_plan_modes, replayed, outcomes, exceptPlan>>

ReplayEdit(path, old, new) ==
    /\ phase = "replay"
    /\ current_plan_content' = ApplyEdit(current_plan_content, path, old, new)
    /\ touched' = (touched \/ EditApplies(current_plan_content, path, old))
    /\ UNCHANGED <<phase, plan_timeline, exit_plan_modes, replayed, outcomes, exceptPlan>>

ReplayExitPlanMode(tool_id) ==
    /\ phase = "replay"
    /\ Len(plan_timeline) < MaxPlans
    /\ plan_timeline' = SnapshotPlan(plan_timeline, tool_id, current_plan_content)
    /\ replayed' = Append(replayed, [id |-> tool_id, buf |-> current_plan_content,
                                     touched |-> touched])
    /\ outcomes' = Append(outcomes, None)
    /\ touched' = FALSE
    /\ UNCHANGED <<phase, current_plan_content, exit_plan_modes, exceptPlan>>

ReplayToolResult(tool_id, text) ==
    /\ phase = "replay"
    /\ plan_timeline' = ResolveApproval(plan_timeline, tool_id, text)
    /\ outcomes' = [k \in 1..Len(outcomes) |->
                       IF plan_timeline[k].tool_id = tool_id /\ outcomes[k] = None
                       THEN Some(text) ELSE outcomes[k]]
    /\ UNCHANGED <<phase, current_plan_content, exit_plan_modes, replayed, touched,
                   exceptPlan>>

\* Any other tool invocation, and any other block: nothing is tracked.
ReplayOther ==
    /\ phase = "replay"
    /\ UNCHANGED vars

EndOfFirstPass ==
    /\ phase = "replay"
    /\ phase' = "built"
    /\ exit_plan_modes' = BuildExitPlanModes(plan_timeline)
    /\ UNCHANGED <<current_plan_content, plan_timeline, replayed, outcomes, touched,
                   exceptPlan>>

NextPlan ==
    \/ \E p \in Paths, c \in Contents : ReplayWrite(p, c)
    \/ \E p \in Paths, o \in OldStrings, n \in NewStrings : ReplayEdit(p, o, n)
    \/ \E id \in ToolIds : ReplayExitPlanMode(id)
    \/ \E id \in ToolIds, t \in ResultTexts : ReplayToolResult(id, t)
    \/ ReplayOther
    \/ EndOfFirstPass

SpecPlan == InitPlan /\ [][NextPlan]_vars

\* The ExitPlanMode invocations read so far have distinct tool ids.
UniqueToolIds ==
    \A j, k \in 1..Len(replayed) : replayed[j].id = replayed[k].id => j = k

\* C9: with unique tool ids, the k-th ExitPlanMode invocation of the log is
\* the revision with plan_index k-1, and its content is the plan buffer as it
\* was when the invocation was replayed, whatever is written or edited later.
C9_SnapshotAtSubmission ==
    /\ Len(plan_timeline) = Len(replayed)
    /\ \A k \in 1..Len(plan_timeline) :
           /\ plan_timeline[k].tool_id = replayed[k].id
           /\ plan_timeline[k].content = replayed[k].buf
    /\ (phase = "built" /\ UniqueToolIds) =>
           \A k \in 1..Len(replayed) :
               /\ replayed[k].id \in DOMAIN exit_plan_modes
               /\ exit_plan_modes[replayed[k].id].plan_index = k - 1
               /\ exit_plan_modes[replayed[k].id].content = replayed[k].buf

\* Two revisions with different contents, the buffer rewritten after the last.
C9_Witness ==
    /\ phase = "built"
    /\ UniqueToolIds
    /\ Len(replayed) = 2
    /\ replayed[1].buf # replayed[2].buf
    /\ replayed[2].buf # None
    /\ current_plan_content # replayed[2].buf
    /\ exit_plan_modes[replayed[2].id].plan_index = 1
    /\ exit_plan_modes[replayed[1].id].plan_index = 0

\* The paths the claim speaks of: a plans/ directory segment, or the suffix.
ClaimedPlanPath(path) ==
    \/ \E i \in 1..(Len(path) - 1) : path[i] = "plans"
    \/ Len(path) > 0 /\ EndsWithPlanMd(path[Len(path)])

WriteAsClaimed ==
    \A p \in Paths, c \in Contents :
        ClaimedPlanPath(p) => ApplyWrite(current_plan_content, p, c) = Some(c)

\* C10 as stated: whatever the buffer, a Write on a plan path replaces it,
\* and an Edit on a plan path replaces the first occurrence of old_string
\* when old_string occurs in the buffer and changes nothing otherwise.
C10_AsStated ==
    /\ WriteAsClaimed
    /\ \A p \in Paths, o \in OldStrings, n \in NewStrings :
           ClaimedPlanPath(p) =>
               ApplyEdit(current_plan_content, p, o, n) =
                   IF current_plan_content # None
                      /\ Contains(Val(current_plan_content), o)
                   THEN Some(ReplaceFirst(Val(current_plan_content), o, n))
                   ELSE current_plan_content

\* C10 (amended): the same, the Edit replacing only when old_string is not
\* empty and occurs in the buffer; an empty old_string changes nothing.
C10_WriteAndEdit ==
    /\ WriteAsClaimed
    /\ \A p \in Paths, o \in OldStrings, n \in NewStrings :
           ClaimedPlanPath(p) =>
               ApplyEdit(current_plan_content, p, o, n) =
                   IF current_plan_content # None /\ o # <<>>
                      /\ Contains(Val(current_plan_content), o)
                   THEN Some(ReplaceFirst(Val(current_plan_content), o, n))
                   ELSE current_plan_content

\* The buffer "aba" written and its first "a" edited to "bb".
C10_Witness ==
    /\ phase = "replay"
    /\ current_plan_content = Some(<<"b", "b", "b", "a">>)

\* The flag the first outcome of the k-th revision decides, None when no
\* outcome with the revision's id has been read since the revision was made.
FlagOf(k) ==
    IF outcomes[k] = None THEN None ELSE Some(SaysApproved(Val(outcomes[k])))

\* C11: with unique tool ids, the approval flag of a revision is None as long
\* as no outcome with its id has been read after its creation; from the first
\* such outcome on it is TRUE when the outcome's text, lowercased, contains
\* "approved" and FALSE otherwise, whatever outcomes follow; the flag of
\* exit_plan_modes after the pass is the same.
C11_ApprovalFlag ==
    UniqueToolIds =>
        /\ \A k \in 1..Len(plan_timeline) : plan_timeline[k].approved = FlagOf(k)
        /\ phase = "built" =>
               \A k \in 1..Len(plan_timeline) :
                   exit_plan_modes[plan_timeline[k].tool_id].approved = FlagOf(k)

\* After the pass: one revision approved by an outcome that spells the
\* keyword "Approved", one rejected, with unique ids.
C11_Witness ==
    /\ phase = "built"
    /\ UniqueToolIds
    /\ Len(plan_timeline) = 2
    /\ outcomes[1] = Some(<<"rejected", "by", "user">>)
    /\ outcomes[2] = Some(<<"User", "has", "Approved", "your", "plan">>)
    /\ exit_plan_modes[plan_timeline[1].tool_id].approved = Some(FALSE)
    /\ exit_plan_modes[plan_timeline[2].tool_id].approved = Some(TRUE)

\* After the pass: a revision no outcome was read for.
C11_Unresolved ==
    /\ phase = "built"
    /\ UniqueToolIds
    /\ \E k \in 1..Len(plan_timeline) :
           outcomes[k] = None /\ exit_plan_modes[plan_timeline[k].tool_id].approved = None

\* C12: after the pass, with unique tool ids, the next_plan of a rejected
\* revision that another submission follows is the buffer the next submission
\* snapshotted, whatever the flag of that one; the next_plan of an approved
\* revision and of the last revision is None.
C12_LinkedToNext ==
    (phase = "built" /\ UniqueToolIds) =>
        \A k \in 1..Len(replayed) :
            /\ (plan_timeline[k].approved = Some(FALSE) /\ k < Len(replayed)) =>
                   exit_plan_modes[replayed[k].id].next_plan = replayed[k + 1].buf
            /\ (plan_timeline[k].approved = Some(TRUE) \/ k = Len(replayed)) =>
                   exit_plan_modes[replayed[k].id].next_plan = None

\* A rejected revision followed by a rejected revision of another content.
C12_Witness ==
    /\ phase = "built"
    /\ UniqueToolIds
    /\ Len(replayed) = 2
    /\ plan_timeline[1].approved = Some(FALSE)
    /\ plan_timeline[2].approved = Some(FALSE)
    /\ replayed[2].buf # None
    /\ replayed[2].buf # replayed[1].buf
    /\ exit_plan_modes[replayed[1].id].next_plan = replayed[2].buf
    /\ exit_plan_modes[replayed[2].id].next_plan = None

\* The content of the revision before the k-th, None before the first: the
\* buffer starts as None.
ContentBefore(k) == IF k = 1 THEN None ELSE plan_timeline[k - 1].content

\* C21: the plan buffer is changed by nothing but a Write on a plan path and
\* an Edit that applies. A revision made with no such invocation read since
\* the revision before it has the content of that revision (None when it is
\* the first), whatever outcomes, submissions, other invocations, and Writes
\* and Edits on other paths were read in between; and as long as no such
\* invocation is read after the last revision the buffer is its content.
C21_BufferFrame ==
    /\ \A k \in 1..Len(plan_timeline) :
           ~replayed[k].touched => plan_timeline[k].content = ContentBefore(k)
    /\ ~touched => current_plan_content = ContentBefore(Len(plan_timeline) + 1)

\* Two submissions of a written plan with the outcome of the first, and no
\* Write or Edit of the plan, read between them: the same content twice.
C21_Witness ==
    /\ phase = "replay"
    /\ Len(plan_timeline) = 2
    /\ replayed[1].touched /\ ~replayed[2].touched
    /\ outcomes[1] # None /\ outcomes[2] = None
    /\ plan_timeline[1].content = Some(<<"a", "b", "a">>)
    /\ plan_timeline[2].content = plan_timeline[1].content
    /\ current_plan_content = plan_timeline[2].content

----------------------------------------------------------------------------
(* format_ask_user_question_with_answer (src/format_jsonl.py 158-226),     *)
(* for one question; strings are sequences of characters.                  *)

\* The most options a question of the model has.
MaxOptions == 2

Quote == "\""

\* The first position q >= p with s[q] a double quote, 0 when there is none.
NextQuote(s, p) ==
    LET qs == {q \in p..Len(s) : s[q] = Quote}
    IN  IF qs = {} THEN 0 ELSE CHOOSE q \in qs : \A r \in qs : q <= r

\* re.finditer(r'"([^"]+)"="([^"]+)"', s) from position p on: the (key,
\* value) pairs of the matches, left to right, not overlapping (167).
RECURSIVE FindAnswers(_, _)
FindAnswers(s, p) ==
    IF p > Len(s) THEN <<>>
    ELSE IF s[p] # Quote THEN FindAnswers(s, p + 1)
    ELSE LET q == NextQuote(s, p + 1)
         IN  IF q = 0 THEN <<>>
             ELSE IF q = p + 1 \/ q + 2 > Len(s)
                     \/ s[q + 1] # "=" \/ s[q + 2] # Quote
             THEN FindAnswers(s, p + 1)
             ELSE LET r == NextQuote(s, q + 3)
                  IN  IF r = 0 \/ r = q + 3 THEN FindAnswers(s, p + 1)
                      ELSE <<[key |-> Slice(s, p + 1, q - 1),
                              val |-> Slice(s, q + 3, r - 1)]>>
                           \o FindAnswers(s, r + 1)

\* s[:n], and the lengths the code cuts a key (168) and a question (186) to.
Take(s, n) == Slice(s, 1, IF n < Len(s) THEN n ELSE Len(s))
KeyChars == 50
QuestionChars == 60

\* The custom answer of a question (165-168, 184-188): custom_answers is a
\* dict, so a key keeps the place of its first match and the value of its
\* last; the question takes the first key that occurs in it, lower-cased.
KeyHits(question, ms) ==
    {i \in 1..Len(ms) : Contains(Take(LowerStr(question), QuestionChars),
                                 LowerStr(Take(ms[i].key, KeyChars)))}
SameKey(ms, first) ==
    {i \in 1..Len(ms) : Take(ms[i].key, KeyChars) = Take(ms[first].key, KeyChars)}
LastOf(ms, same) == ms[CHOOSE i \in same : \A j \in same : j <= i].val
FirstHit(ms, hits) ==
    IF hits = {} THEN None
    ELSE Some(LastOf(ms, SameKey(ms, CHOOSE i \in hits : \A j \in hits : i <= j)))
CustomAnswerAmong(question, ms) == FirstHit(ms, KeyHits(question, ms))
CustomAnswer(question, answer_text) ==
    CustomAnswerAmong(question, FindAnswers(answer_text, 1))

\* matched_option_idx (190-197): the first option whose label is the custom
\* answer, lower-cased; 0 when there is none.
MatchedOptionIdx(labels, custom) ==
    IF custom = None THEN 0
    ELSE LET hits == {i \in 1..Len(labels) :
                         LowerStr(labels[i]) = LowerStr(Val(custom))}
         IN  IF hits = {} THEN 0 ELSE CHOOSE i \in hits : \A j \in hits : i <= j

\* selected (203-211), for option i.
SelectedAnyMatch(labels, i, answer_text, custom) ==
    \/ MatchedOptionIdx(labels, custom) = i
    \/ /\ answer_text # <<>>
       /\ custom = None
       /\ Contains(LowerStr(answer_text), LowerStr(labels[i]))
Selected(labels, i, answer_text, custom) ==
    \/ MatchedOptionIdx(labels, custom) = i
    \/ /\ answer_text # <<>>
       /\ custom = None
       /\ Contains(LowerStr(answer_text), LowerStr(labels[i]))
       /\ LET others == {j \in 1..Len(labels) :
                            /\ labels[j] # labels[i]
                            /\ Contains(LowerStr(answer_text), LowerStr(labels[j]))}
          IN  \A j \in others : Len(labels[i]) >= Len(labels[j])

\* The lines of the question: its header and prompt, a blank line, one line
\* per option, the Custom line if any, a blank line (176-224).
AskLine(k, idx, text, sel) == [k |-> k, idx |-> idx, text |-> text, sel |-> sel]
FormatQuestionWith(q, answer_text, custom) ==
    <<AskLine("question", 0, q.question, FALSE), AskLine("blank", 0, <<>>, FALSE)>>
    \o [i \in 1..Len(q.labels) |->
           AskLine("option", i, q.labels[i],
                   Selected(q.labels, i, answer_text, custom))]
    \o (IF custom # None /\ MatchedOptionIdx(q.labels, custom) = 0
        THEN <<AskLine("custom", Len(q.labels) + 1, Val(custom), TRUE)>> ELSE <<>>)
    \o <<AskLine("blank", 0, <<>>, FALSE)>>
FormatQuestion(q, answer_text) ==
    FormatQuestionWith(q, answer_text, CustomAnswer(q.question, answer_text))

\* The questions, option labels and answers of the model.
TheQuestion == <<"q">>
Labels == {<<"A">>, <<"a">>, <<"A", "B">>, <<"B">>}
AnswerTexts ==
    {<<>>,
     <<"g", "o", " ", "A">>,
     <<"x", "a", "b">>,
     <<"n", "o">>,
     <<Quote, "q", Quote, "=", Quote, "a", Quote>>,
     <<Quote, "Q", Quote, "=", Quote, "A", "B", Quote>>,
     <<Quote, "q", Quote, "=", Quote, "x", Quote>>,
     <<Quote, "z", Quote, "=", Quote, "A", Quote>>,
     <<Quote, "q", Quote, "=", Quote, "B", Quote, " ",
       Quote, "q", Quote, "=", Quote, "x", "a", Quote>>}
Questions ==
    {[question |-> TheQuestion, labels |-> ls] :
        ls \in SeqsUpTo(Labels, MaxOptions) \ {<<>>}}

InitAsk ==
    /\ phase = "ask"
    /\ tool_input \in Questions
    /\ answer_content \in AnswerTexts
    /\ ask_output = <<>>
    /\ OnlyAsk

FormatAskUserQuestion ==
    /\ phase = "ask"
    /\ phase' = "asked"
    /\ ask_output' = FormatQuestion(tool_input, answer_content)
    /\ UNCHANGED <<tool_input, answer_content, exceptAsk>>

NextAsk == FormatAskUserQuestion

SpecAsk == InitAsk /\ [][NextAsk]_vars

\* The option lines and the Custom lines of the output.
OptionLine(i) ==
    CHOOSE l \in {ask_output[k] : k \in 1..Len(ask_output)} :
        l.k = "option" /\ l.idx = i
CustomLines == {k \in 1..Len(ask_output) : ask_output[k].k = "custom"}

\* The structured custom answer of the question, and the claim's two cases.
TheCustom == CustomAnswer(tool_input.question, answer_content)
EqualsCustom(i) ==
    TheCustom # None /\ LowerStr(tool_input.labels[i]) = LowerStr(Val(TheCustom))
MentionedLongest(i) ==
    /\ TheCustom = None
    /\ Contains(LowerStr(answer_content), LowerStr(tool_input.labels[i]))
    /\ ~\E j \in 1..Len(tool_input.labels) :
           /\ j # i
           /\ Contains(LowerStr(answer_content), LowerStr(tool_input.labels[j]))
           /\ Len(tool_input.labels[j]) > Len(tool_input.labels[i])
CustomLineAsClaimed ==
    IF TheCustom # None /\ \A i \in 1..Len(tool_input.labels) : ~EqualsCustom(i)
    THEN /\ Cardinality(CustomLines) = 1
         /\ \A k \in CustomLines :
               /\ ask_output[k].text = Val(TheCustom)
               /\ \A j \in 1..Len(ask_output) :
                      ask_output[j].k = "option" => j < k
    ELSE CustomLines = {}

\* C5 as stated: an option is marked selected exactly when the custom answer
\* equals its label (case-insensitively), or there is no custom answer, the
\* answer mentions its label and mentions no other option's longer label.
C5_AsStated ==
    phase = "asked" =>
        /\ \A i \in 1..Len(tool_input.labels) :
               OptionLine(i).sel <=> (EqualsCustom(i) \/ MentionedLongest(i))
        /\ CustomLineAsClaimed

\* C5 (amended): the same, but of several options whose labels equal the
\* custom answer only the first is marked selected.
C5_SelectedOption ==
    phase = "asked" =>
        /\ \A i \in 1..Len(tool_input.labels) :
               OptionLine(i).sel <=>
                   \/ /\ EqualsCustom(i)
                      /\ \A j \in 1..(i - 1) : ~EqualsCustom(j)
                   \/ MentionedLongest(i)
        /\ CustomLineAsClaimed

\* Options [A, B] and a free-text answer that names A: A is marked, B is not.
C5_Witness ==
    /\ phase = "asked"
    /\ tool_input.labels = <<<<"A">>, <<"B">>>>
    /\ answer_content = <<"g", "o", " ", "A">>
    /\ OptionLine(1).sel
    /\ ~OptionLine(2).sel

----------------------------------------------------------------------------
(* The second pass of parse_entries (src/format_jsonl.py 546-581), one     *)
(* step per line of the file.                                              *)

\* The most lines a log of the model has.
MaxLines == 3

\* The lines of the model, by what json.loads and the code make of them:
\*   blank    nothing but white space (550-552);
\*   object   a JSON object whose message, if any, is an object;
\*   invalid  not JSON: json.loads raises json.JSONDecodeError;
\*   scalar   JSON, but a number, string, list, ...: no item assignment (555);
\*   badmsg   a JSON object whose "message" is null or a string: no .get (558).
LineKinds == {"blank", "object", "invalid", "scalar", "badmsg"}
Logs == SeqsUpTo(LineKinds, MaxLines)

\* An entry of the result: a parsed line, or an error entry (579) with the
\* line number in its diagnostic; _line_num is enumerate's 0-based count.
Entry(n) == [error |-> FALSE, line_num |-> n, diag |-> None]
ErrorEntry(n) == [error |-> TRUE, line_num |-> n, diag |-> Some(n)]

\* What the body of the loop (550-579) does with line n of kind k: the new
\* list of entries, or "raise" when the exception is not a JSONDecodeError.
SecondPassLineDropBad(es, n, k) ==
    CASE k = "blank" -> es
      [] k = "object" -> Append(es, Entry(n))
      [] k = "invalid" -> es
      [] OTHER -> "raise"
SecondPassLine(es, n, k) ==
    CASE k = "blank" -> es
      [] k = "object" -> Append(es, Entry(n))
      [] k = "invalid" -> Append(es, ErrorEntry(n))
      [] OTHER -> "raise"

Raises(k) == k \in {"scalar", "badmsg"}

InitParse ==
    /\ phase = "second_pass"
    /\ log_lines \in Logs
    /\ line_num = 0
    /\ entries = <<>>
    /\ OnlyParse

\* One iteration of the loop at 549 that ends normally.
ReadLine ==
    /\ phase = "second_pass"
    /\ line_num < Len(log_lines)
    /\ ~Raises(log_lines[line_num + 1])
    /\ entries' = SecondPassLine(entries, line_num, log_lines[line_num + 1])
    /\ line_num' = line_num + 1
    /\ UNCHANGED <<phase, log_lines, exceptParse>>

\* One iteration that raises TypeError or AttributeError: nothing in
\* parse_entries or its callers catches it.
ReadLineRaises ==
    /\ phase = "second_pass"
    /\ line_num < Len(log_lines)
    /\ Raises(log_lines[line_num + 1])
    /\ phase' = "raised"
    /\ UNCHANGED <<log_lines, line_num, entries, exceptParse>>

\* The return at 581.
ReturnEntries ==
    /\ phase = "second_pass"
    /\ line_num = Len(log_lines)
    /\ phase' = "returned"
    /\ UNCHANGED <<log_lines, line_num, entries, exceptParse>>

NextParse == ReadLine \/ ReadLineRaises \/ ReturnEntries

SpecParse == InitParse /\ [][NextParse]_vars

\* The 0-based numbers of the non-blank lines of the log.
NonBlank == {n \in 0..(Len(log_lines) - 1) : log_lines[n + 1] # "blank"}

\* C6: parse_entries completes without raising, whatever the lines contain.
C6_NeverRaises == phase # "raised"

\* C7: what parse_entries returns has exactly one entry per non-blank line,
\* in line order, and the entry of a line that is not JSON is an error entry
\* with that line's number and the diagnostic.
C7_OneEntryPerLine ==
    phase = "returned" =>
        /\ Len(entries) = Cardinality(NonBlank)
        /\ \A n \in NonBlank : \E i \in 1..Len(entries) : entries[i].line_num = n
        /\ \A i, j \in 1..Len(entries) :
               i < j => entries[i].line_num < entries[j].line_num
        /\ \A i \in 1..Len(entries) :
               /\ entries[i].line_num \in NonBlank
               /\ entries[i].error <=> log_lines[entries[i].line_num + 1] = "invalid"
               /\ entries[i].error => entries[i].diag = Some(entries[i].line_num)

\* A line that is not JSON, a blank line and a good line: two entries, the
\* first an error entry for line 0, the second the entry of line 2.
C7_Witness ==
    /\ phase = "returned"
    /\ log_lines = <<"invalid", "blank", "object">>
    /\ Len(entries) = 2
    /\ entries[1].error /\ entries[1].line_num = 0
    /\ ~entries[2].error /\ entries[2].line_num = 2

----------------------------------------------------------------------------
(* get_plan_diff (src/format_jsonl.py 275-407) and the part of difflib it  *)
(* runs: SequenceMatcher on the lines of the two texts (no junk: the texts *)
(* are shorter than 200 lines), get_grouped_opcodes and unified_diff with  *)
(* 2 lines of context.  A text is its sequence of lines, each ended by a   *)
(* newline; positions are Python's, counted from 0, and ranges half-open.  *)

\* The most lines a plan text of the model has.
MaxPlanLines == 3

\* n, the lines of context of unified_diff (291) and of the clean-up (386).
ContextLines == 2

Min(x, y) == IF x < y THEN x ELSE y
Max(x, y) == IF x > y THEN x ELSE y

\* A line of a plan: an ordered-list item "<indent><ord>. <text>", a
\* markdown heading (ord is its level), a comment of a code block ("# ..."
\* between two fences, ord the number of its # characters), a blank line or
\* any other line.
PlanLine(kind, indent, ord, text) ==
    [kind |-> kind, indent |-> indent, ord |-> ord, text |-> text]
NoLine == PlanLine("none", 0, 0, "")
PlanLines == {PlanLine("item", 0, 1, "a"), PlanLine("item", 0, 2, "a"),
              PlanLine("other", 0, 0, "X")}
PlanTexts == SeqsUpTo(PlanLines, MaxPlanLines)

\* re.match(r'^(\s*)(\d+)\.\s+(.*)$', line) (326, 334) and its key (328).
IsListItem(l) == l.kind = "item"
ItemKey(l) == <<l.indent, l.text>>
\* line.strip().startswith('#') (269-270).
IsHeading(l) == l.kind \in {"heading", "comment"}
\* line.startswith('#') (233)
StartsWithHash(l) == l.kind \in {"heading", "comment"} /\ l.indent = 0
\* not line.strip()
IsBlankLine(l) == l.kind \in {"blank", "none"}

\* The length of the common run of a[i:ahi] and b[j:bhi] from their start.
RECURSIVE MatchLen(_, _, _, _, _, _)
MatchLen(a, b, i, j, ahi, bhi) ==
    IF i < ahi /\ j < bhi /\ a[i + 1] = b[j + 1]
    THEN 1 + MatchLen(a, b, i + 1, j + 1, ahi, bhi)
    ELSE 0

\* SequenceMatcher.find_longest_match: the longest block common to
\* a[alo:ahi] and b[blo:bhi]; of the longest, the one that starts earliest
\* in a, and of those the one that starts earliest in b.
Block(i, j, k) == [i |-> i, j |-> j, k |-> k]
FindLongestMatch(a, b, alo, ahi, blo, bhi) ==
    LET starts == (alo..(ahi - 1)) \X (blo..(bhi - 1))
        size(st) == MatchLen(a, b, st[1], st[2], ahi, bhi)
        longest == {st \in starts : \A other \in starts : size(other) <= size(st)}
        first == CHOOSE st \in longest :
                    \A other \in longest :
                        \/ st[1] < other[1]
                        \/ st[1] = other[1] /\ st[2] <= other[2]
    IN  IF starts = {} \/ size(first) = 0 THEN Block(alo, blo, 0)
        ELSE Block(first[1], first[2], size(first))

\* The body of SequenceMatcher.get_matching_blocks: the longest match, then
\* the blocks to its left and to its right, in increasing order.
RECURSIVE MatchingBlocksIn(_, _, _, _, _, _)
MatchingBlocksAround(a, b, alo, ahi, blo, bhi, m) ==
    IF m.k = 0 THEN <<>>
    ELSE (IF alo < m.i /\ blo < m.j
          THEN MatchingBlocksIn(a, b, alo, m.i, blo, m.j) ELSE <<>>)
         \o <<m>>
         \o (IF m.i + m.k < ahi /\ m.j + m.k < bhi
             THEN MatchingBlocksIn(a, b, m.i + m.k, ahi, m.j + m.k, bhi)
             ELSE <<>>)
MatchingBlocksIn(a, b, alo, ahi, blo, bhi) ==
    MatchingBlocksAround(a, b, alo, ahi, blo, bhi,
                         FindLongestMatch(a, b, alo, ahi, blo, bhi))

\* get_matching_blocks, with its sentinel (len(a), len(b), 0).
GetMatchingBlocks(a, b) ==
    MatchingBlocksIn(a, b, 0, Len(a), 0, Len(b)) \o <<Block(Len(a), Len(b), 0)>>

\* SequenceMatcher.get_opcodes, from block p on with the cursor at (i, j).
Opcode(tag, i1, i2, j1, j2) == [tag |-> tag, i1 |-> i1, i2 |-> i2, j1 |-> j1, j2 |-> j2]
RECURSIVE OpcodesFrom(_, _, _, _)
OpcodesFrom(blocks, p, i, j) ==
    IF p > Len(blocks) THEN <<>>
    ELSE LET m == blocks[p]
             tag == IF i < m.i /\ j < m.j THEN "replace"
                    ELSE IF i < m.i THEN "delete"
                    ELSE IF j < m.j THEN "insert" ELSE ""
         IN  (IF tag # "" THEN <<Opcode(tag, i, m.i, j, m.j)>> ELSE <<>>)
             \o (IF m.k > 0
                 THEN <<Opcode("equal", m.i, m.i + m.k, m.j, m.j + m.k)>> ELSE <<>>)
             \o OpcodesFrom(blocks, p + 1, m.i + m.k, m.j + m.k)
GetOpcodes(a, b) == OpcodesFrom(GetMatchingBlocks(a, b), 1, 0, 0)

\* The loop of SequenceMatcher.get_grouped_opcodes(n) over the codes, from
\* code p on with the group in construction, and its final yield.
RECURSIVE GroupsFrom(_, _, _, _)
GroupsFrom(codes, p, group, n) ==
    IF p > Len(codes)
    THEN IF group # <<>> /\ ~(Len(group) = 1 /\ group[1].tag = "equal")
         THEN <<group>> ELSE <<>>
    ELSE LET c == codes[p]
         IN  IF c.tag = "equal" /\ c.i2 - c.i1 > 2 * n
             THEN <<Append(group, Opcode("equal", c.i1, Min(c.i2, c.i1 + n),
                                         c.j1, Min(c.j2, c.j1 + n)))>>
                  \o GroupsFrom(codes, p + 1,
                                <<Opcode("equal", Max(c.i1, c.i2 - n), c.i2,
                                         Max(c.j1, c.j2 - n), c.j2)>>, n)
             ELSE GroupsFrom(codes, p + 1, Append(group, c), n)
\* The leading and the trailing code cut to n lines when they are equal
\* codes (576-581 of difflib).
TrimFirst(codes, n) ==
    IF codes[1].tag = "equal"
    THEN [codes EXCEPT ![1] =
             Opcode("equal", Max(@.i1, @.i2 - n), @.i2, Max(@.j1, @.j2 - n), @.j2)]
    ELSE codes
TrimLast(codes, n) ==
    IF codes[Len(codes)].tag = "equal"
    THEN [codes EXCEPT ![Len(codes)] =
             Opcode("equal", @.i1, Min(@.i2, @.i1 + n), @.j1, Min(@.j2, @.j1 + n))]
    ELSE codes
OrOneEqual(codes) ==
    IF codes = <<>> THEN <<Opcode("equal", 0, 1, 0, 1)>> ELSE codes
GetGroupedOpcodes(a, b, n) ==
    GroupsFrom(TrimLast(TrimFirst(OrOneEqual(GetOpcodes(a, b)), n), n), 1, <<>>, n)

\* _format_range_unified(start, stop), as <<beginning, length>>: the text
\* "beginning" when length is 1 and "beginning,length" otherwise.
FormatRangeUnified(start, stop) ==
    IF stop - start = 0 THEN <<start, 0>> ELSE <<start + 1, stop - start>>

\* A line of the diff: its first character(s) and the rest.
\*   "@@"  a hunk header, its ranges (hunk) and the heading put after it (hdr);
\*   ""    the empty line put before a hunk header (310);
\*   " ", "-", "+"  a context, removed or added line of the plan (ln).
DiffLine(tag, ln, hunk, hdr) == [tag |-> tag, ln |-> ln, hunk |-> hunk, hdr |-> hdr]
EmptyLine == DiffLine("", NoLine, <<>>, None)
Tagged(tag, lines) == [k \in 1..Len(lines) |-> DiffLine(tag, lines[k], <<>>, None)]

\* find_preceding_header(lines, line_num) (266-272), line_num being at.
FindPrecedingHeader(lines, at) ==
    LET hs == {i \in 0..(at - 1) : IsHeading(lines[i + 1])}
    IN  IF hs = {} THEN None
        ELSE Some(lines[(CHOOSE i \in hs : \A j \in hs : j <= i) + 1])

\* The lines unified_diff yields for the codes of a group, from code p on.
RECURSIVE CodeLines(_, _, _, _)
CodeLines(a, b, group, p) ==
    IF p > Len(group) THEN <<>>
    ELSE LET c == group[p]
         IN  (IF c.tag = "equal" THEN Tagged(" ", Slice(a, c.i1 + 1, c.i2))
              ELSE (IF c.tag \in {"replace", "delete"}
                    THEN Tagged("-", Slice(a, c.i1 + 1, c.i2)) ELSE <<>>)
                   \o (IF c.tag \in {"replace", "insert"}
                       THEN Tagged("+", Slice(b, c.j1 + 1, c.j2)) ELSE <<>>))
             \o CodeLines(a, b, group, p + 1)

\* raw_lines (298-316): for each group of unified_diff an empty line, the
\* hunk header with the heading that precedes line start_line of the first
\* text, and the lines of the group; the ---/+++ lines are skipped.
RECURSIVE RawLinesFrom(_, _, _, _)
RawLinesFrom(a, b, groups, g) ==
    IF g > Len(groups) THEN <<>>
    ELSE LET group == groups[g]
             first == group[1]
             last == group[Len(group)]
             r1 == FormatRangeUnified(first.i1, last.i2)
             r2 == FormatRangeUnified(first.j1, last.j2)
             start_line == r1[1] - 1
         IN  <<EmptyLine,
               DiffLine("@@", NoLine, r1 \o r2, FindPrecedingHeader(a, start_line))>>
             \o CodeLines(a, b, group, 1)
             \o RawLinesFrom(a, b, groups, g + 1)
RawLines(a, b) == RawLinesFrom(a, b, GetGroupedOpcodes(a, b, ContextLines), 1)

\* skip_indices (320-348): the removed and the added list items are grouped
\* by key in order of occurrence, and the k-th removed item of a key is
\* paired with the k-th added item of the same key.
RankAmong(raw, i) ==
    Cardinality({j \in 1..i : /\ raw[j].tag = raw[i].tag
                              /\ IsListItem(raw[j].ln)
                              /\ ItemKey(raw[j].ln) = ItemKey(raw[i].ln)})
CountOf(raw, tag, key) ==
    Cardinality({j \in 1..Len(raw) : /\ raw[j].tag = tag
                                     /\ IsListItem(raw[j].ln)
                                     /\ ItemKey(raw[j].ln) = key})
Opposite(tag) == IF tag = "-" THEN "+" ELSE "-"
\* The same without the one-to-one pairing: every list item that has a
\* counterpart of its key is skipped.
SkipIndicesOfKey(raw) ==
    {i \in 1..Len(raw) :
        /\ raw[i].tag \in {"-", "+"}
        /\ IsListItem(raw[i].ln)
        /\ CountOf(raw, Opposite(raw[i].tag), ItemKey(raw[i].ln)) > 0}
SkipIndices(raw) ==
    {i \in 1..Len(raw) :
        /\ raw[i].tag \in {"-", "+"}
        /\ IsListItem(raw[i].ln)
        /\ RankAmong(raw, i) <= CountOf(raw, Opposite(raw[i].tag), ItemKey(raw[i].ln))}

\* The subsequence of s at the positions in keep.
RECURSIVE SelectRange(_, _, _, _)
SelectRange(s, keep, lo, hi) ==
    IF lo > hi THEN <<>>
    ELSE IF lo = hi THEN (IF lo \in keep THEN <<s[lo]>> ELSE <<>>)
    ELSE SelectRange(s, keep, lo, (lo + hi) \div 2)
         \o SelectRange(s, keep, (lo + hi) \div 2 + 1, hi)
SelectAt(s, keep, i) == SelectRange(s, keep, i, Len(s))

\* The clean-up (356-402): a hunk header stays when a change line follows it
\* before the next hunk header; an empty or context line stays when it is
\* within 2 lines of a change line; change lines stay.
ChangeIndices(result) == {i \in 1..Len(result) : result[i].tag \in {"-", "+"}}
\* The same with every empty and context line kept.
KeptIndicesWithContext(result) ==
    {i \in 1..Len(result) :
        IF result[i].tag = "@@"
        THEN \E c \in ChangeIndices(result) :
                /\ c > i
                /\ \A j \in (i + 1)..(c - 1) : result[j].tag # "@@"
        ELSE TRUE}
KeptIndices(result) ==
    {i \in 1..Len(result) :
        IF result[i].tag = "@@"
        THEN \E c \in ChangeIndices(result) :
                /\ c > i
                /\ \A j \in (i + 1)..(c - 1) : result[j].tag # "@@"
        ELSE IF result[i].tag \in {"", " "}
        THEN \E c \in ChangeIndices(result) :
                (IF i > c THEN i - c ELSE c - i) <= ContextLines
        ELSE TRUE}

\* not l.strip() or l.startswith('@@') (404).
BlankOrHeader(dl) ==
    \/ dl.tag \in {"", "@@"}
    \/ dl.tag = " " /\ IsBlankLine(dl.ln)

\* get_plan_diff(rejected_plan, approved_plan): None, or the lines of the
\* text returned.
\* The final check (404-407) and the join of final_result.
FinalResult(final_result) ==
    IF \A i \in 1..Len(final_result) : BlankOrHeader(final_result[i])
    THEN None ELSE Some(final_result)
\* The second pass (350-402) over result.
CleanedUp(result) == FinalResult(SelectAt(result, KeptIndices(result), 1))
\* The first pass (318-354) over raw_lines.
Filtered(raw) ==
    IF raw = <<>> THEN None
    ELSE CleanedUp(SelectAt(raw, (1..Len(raw)) \ SkipIndices(raw), 1))
GetPlanDiff(rejected, approved) ==
    IF ~Truthy(rejected) \/ ~Truthy(approved) THEN None
    ELSE Filtered(RawLines(Val(rejected), Val(approved)))

InitDiff ==
    /\ phase = "diff"
    /\ rejected_plan \in {None} \cup {Some(t) : t \in PlanTexts}
    /\ approved_plan \in {None} \cup {Some(t) : t \in PlanTexts}
    /\ raw_lines = <<>>
    /\ diff_result = None
    /\ plan_args = <<>>
    /\ plan_result = <<>>
    /\ OnlyDiff

CallGetPlanDiff ==
    /\ phase = "diff"
    /\ phase' = "diffed"
    /\ raw_lines' = IF ~Truthy(rejected_plan) \/ ~Truthy(approved_plan) THEN <<>>
                    ELSE RawLines(Val(rejected_plan), Val(approved_plan))
    /\ diff_result' = Filtered(raw_lines')
    /\ UNCHANGED <<rejected_plan, approved_plan, plan_args, plan_result, exceptDiff>>

\* Longer plans, for the hunks of the diff: a few lines that differ between
\* the two texts, then lines the texts share, then at most one more line that
\* may differ.  Three shared lines keep the changes at both ends in one
\* hunk, five give two hunks; the fourth of five may be a heading.
MaxHead == 1
HeadLines == {PlanLine("item", 0, 1, "a"), PlanLine("item", 0, 2, "a"),
              PlanLine("heading", 0, 1, "A")}
TailLines == {PlanLine("item", 0, 1, "a"), PlanLine("other", 0, 0, "Y"),
              PlanLine("other", 0, 0, "Z")}
Shared(name) == PlanLine("other", 0, 0, name)
SharedLines ==
    {<<Shared("f1"), Shared("f2"), Shared("f3")>>,
     <<Shared("f1"), Shared("f2"), Shared("f3"), Shared("f4"), Shared("f5")>>,
     <<Shared("f1"), Shared("f2"), Shared("f3"), PlanLine("heading", 0, 2, "B"),
       Shared("f5")>>}
HunkTexts(shared) ==
    {h \o shared \o t : h \in SeqsUpTo(HeadLines, MaxHead), t \in SeqsUpTo(TailLines, 1)}

InitHunk ==
    /\ phase = "diff"
    /\ \E shared \in SharedLines :
          /\ rejected_plan \in {Some(t) : t \in HunkTexts(shared)}
          /\ approved_plan \in {Some(t) : t \in HunkTexts(shared)}
    /\ raw_lines = <<>>
    /\ diff_result = None
    /\ plan_args = <<>>
    /\ plan_result = <<>>
    /\ OnlyDiff

NextHunk == CallGetPlanDiff

SpecHunk == InitHunk /\ [][NextHunk]_vars

\* The hunk headers of the diff, as positions of raw_lines, and for a hunk
\* header the position of the first change line of its hunk.
HunkHeaders == {h \in 1..Len(raw_lines) : raw_lines[h].tag = "@@"}
FirstChange(h) ==
    CHOOSE c \in (h + 1)..Len(raw_lines) :
        /\ raw_lines[c].tag \in {"-", "+"}
        /\ \A d \in (h + 1)..(c - 1) : raw_lines[d].tag \notin {"-", "+"}

\* The last heading among the first n lines of the rejected plan, if any.
LastHeadingIn(n) ==
    IF \A i \in 1..n : ~IsHeading(Val(rejected_plan)[i]) THEN None
    ELSE Some(Val(rejected_plan)[CHOOSE i \in 1..n :
                 /\ IsHeading(Val(rejected_plan)[i])
                 /\ \A j \in (i + 1)..n : ~IsHeading(Val(rejected_plan)[j])])

\* The hunk headers of the text returned are those of the diff, as they were.
HeadersKept ==
    diff_result # None =>
        \A i \in 1..Len(Val(diff_result)) :
            Val(diff_result)[i].tag = "@@" =>
                \E h \in HunkHeaders : raw_lines[h] = Val(diff_result)[i]

\* C18: the heading of a hunk header is the last heading of the
\* rejected plan before the first changed line of the hunk (the lines of the
\* plan before it are those before the hunk and the context lines that lead
\* the hunk), and there is none when no heading precedes that line.
C18_HeadingBeforeChange ==
    phase = "diffed" =>
        /\ HeadersKept
        /\ \A h \in HunkHeaders :
               raw_lines[h].hdr =
                  LastHeadingIn(raw_lines[h].hunk[1] - 1 + (FirstChange(h) - h - 1))

\* What holds instead: the heading of a hunk header is the last heading of
\* the rejected plan before the first line of the hunk, leading context
\* lines included, and there is none when no heading precedes that line.
HeadingBeforeHunk ==
    phase = "diffed" =>
        /\ HeadersKept
        /\ \A h \in HunkHeaders :
               raw_lines[h].hdr = LastHeadingIn(raw_lines[h].hunk[1] - 1)

\* Two hunks returned, the first with a bare header and the second under the
\* heading that opens the plan, while a later heading leads the second hunk
\* as a context line.
HeadingInsideHunk ==
    /\ phase = "diffed"
    /\ diff_result # None
    /\ Cardinality(HunkHeaders) = 2
    /\ \E i, j \in 1..Len(Val(diff_result)) :
           /\ i < j
           /\ Val(diff_result)[i].tag = "@@" /\ Val(diff_result)[i].hdr = None
           /\ Val(diff_result)[j].tag = "@@"
           /\ Val(diff_result)[j].hdr = Some(PlanLine("heading", 0, 1, "A"))
           /\ Val(diff_result)[j + 1] =
                  DiffLine(" ", PlanLine("heading", 0, 2, "B"), <<>>, None)

\* The change lines of the diff that are halves of a renumbering pair: the
\* k-th removed and the k-th added list item of the same indent and text.
IsItemChange(i) == raw_lines[i].tag \in {"-", "+"} /\ IsListItem(raw_lines[i].ln)
SameKeyBefore(i) ==
    {j \in 1..i : /\ IsItemChange(j)
                  /\ raw_lines[j].tag = raw_lines[i].tag
                  /\ ItemKey(raw_lines[j].ln) = ItemKey(raw_lines[i].ln)}
Paired(i, j) ==
    /\ IsItemChange(i) /\ IsItemChange(j)
    /\ raw_lines[i].tag = "-" /\ raw_lines[j].tag = "+"
    /\ ItemKey(raw_lines[i].ln) = ItemKey(raw_lines[j].ln)
    /\ Cardinality(SameKeyBefore(i)) = Cardinality(SameKeyBefore(j))
RenumberingHalves ==
    {i \in 1..Len(raw_lines) : \E j \in 1..Len(raw_lines) : Paired(i, j) \/ Paired(j, i)}

\* The real changes: the other change lines of the diff, in their order.
RealChanges ==
    SelectAt(raw_lines, ChangeIndices(raw_lines) \ RenumberingHalves, 1)

\* The lines returned, the empty sequence for None.
Returned == IF diff_result = None THEN <<>> ELSE Val(diff_result)

\* C19: in the text returned every context line and every empty line is
\* within 2 lines of a change line, every hunk header is followed by a
\* change line before the next hunk header, and None is returned when no
\* change line is left once the renumbering pairs are removed.
C19_NoOrphans ==
    phase = "diffed" =>
        /\ \A i \in 1..Len(Returned) :
               Returned[i].tag \in {" ", ""} =>
                  \E c \in ChangeIndices(Returned) :
                      c - i \in (0 - ContextLines)..ContextLines
        /\ \A i \in 1..Len(Returned) :
               Returned[i].tag = "@@" =>
                  \E c \in ChangeIndices(Returned) :
                      c > i /\ \A j \in (i + 1)..(c - 1) : Returned[j].tag # "@@"
        /\ RealChanges = <<>> => diff_result = None

\* Two hunks in the diff, the first a renumbering pair alone: its header and
\* its context lines are gone, the second hunk is returned.
C19_Witness ==
    /\ phase = "diffed"
    /\ Cardinality(HunkHeaders) = 2
    /\ RenumberingHalves # {}
    /\ diff_result # None
    /\ Cardinality({i \in 1..Len(Returned) : Returned[i].tag = "@@"}) = 1
    /\ Len(Returned) < Len(raw_lines) - 4

\* One hunk whose context lines next to a removed renumbering pair are more
\* than 2 lines from the change that is left.
C19_OrphanedContext ==
    /\ phase = "diffed"
    /\ Cardinality(HunkHeaders) = 1
    /\ RenumberingHalves # {}
    /\ diff_result # None
    /\ Cardinality({i \in 1..Len(raw_lines) : raw_lines[i].tag = " "})
          > Cardinality({i \in 1..Len(Returned) : Returned[i].tag = " "})

\* C20: the change lines of the text returned are the change lines of the
\* diff that are not halves of a renumbering pair, all of them and in the
\* order of the diff.
C20_RealChangesKept ==
    phase = "diffed" =>
        SelectAt(Returned, ChangeIndices(Returned), 1) = RealChanges

\* A list item removed twice and added once under another ordinal: one
\* removal is paired, the other is returned with a change of another line.
C20_Witness ==
    /\ phase = "diffed"
    /\ Cardinality(RenumberingHalves) = 2
    /\ Len(RealChanges) >= 2
    /\ \E i \in 1..Len(RealChanges) : IsListItem(RealChanges[i].ln)
    /\ \E i \in 1..Len(RealChanges) : ~IsListItem(RealChanges[i].ln)
    /\ SelectAt(Returned, ChangeIndices(Returned), 1) = RealChanges

\* The two texts differ only by the ordinals of ordered-list lines.
OnlyRenumbered(a, b) ==
    /\ Len(a) = Len(b)
    /\ a # b
    /\ \A i \in 1..Len(a) :
          \/ a[i] = b[i]
          \/ /\ IsListItem(a[i]) /\ IsListItem(b[i])
             /\ a[i].indent = b[i].indent
             /\ a[i].text = b[i].text

\* C3: get_plan_diff returns None for every pair of plan texts that differ
\* only by the ordinals of ordered-list lines.
C3_NoDiffForRenumbering ==
    (/\ phase = "diffed"
     /\ rejected_plan # None
     /\ approved_plan # None
     /\ OnlyRenumbered(Val(rejected_plan), Val(approved_plan)))
        => diff_result = None

----------------------------------------------------------------------------
(* Rendering (src/format_jsonl.py 709-1158): format_tool_result,           *)
(* format_plan_result, extract_message_content and the loop of             *)
(* format_jsonl.  A text is a sequence of words on one line; a rendered    *)
(* string is the sequence of its lines, so that '\n'.join(parts) is the    *)
(* concatenation of the parts.  The options other than show_tools have     *)
(* their default values and the entries carry no timestamp.                *)

\* The texts of the model.
PromptText == <<"please", "plan">>
StatusText == <<"Let", "me", "check">>
DoneText == <<"Done.">>
EssayText == <<"<essay>">>
HeadingText == <<"#", "Title">>
LongText == <<"<long>">>
BannerText == <<"Context", "was", "compacted">>
OkText == <<"ok">>
ApprovedText == <<"User", "has", "Approved", "your", "plan">>
RejectedText == <<"rejected", "by", "user">>

\* len(word); <essay> stands for a paragraph of 400 characters.
WordChars(w) == CASE w = "<essay>" -> 400
                  [] w = "#" -> 1
                  [] w \in {"me", "ok", "by"} -> 2
                  [] w \in {"Let", "has", "was"} -> 3
                  [] w \in {"User", "your", "plan", "user"} -> 4
                  [] w \in {"check", "Done.", "Title"} -> 5
                  [] w = "please" -> 6
                  [] w = "Context" -> 7
                  [] OTHER -> 8
RECURSIVE TextChars(_)
TextChars(text) ==
    IF text = <<>> THEN 0
    ELSE WordChars(Head(text)) + (IF Len(text) > 1 THEN 1 ELSE 0) + TextChars(Tail(text))

\* A line of a rendered string: its kind k, a number n (a user-turn index,
\* a plan index), its text t, the plan line ln it shows, the ranges of a
\* hunk header and the links of a navigation line.  The n of a
\* plan_approved line is history: the text of the line does not show it.
Line(k, n, t) ==
    [k |-> k, n |-> n, t |-> t, ln |-> NoLine, hunk |-> <<>>, links |-> <<>>]
Blank == Line("", 0, <<>>)
Mark(k) == Line(k, 0, <<>>)
OfPlan(k, l) == [Line(k, 0, <<>>) EXCEPT !.ln = l]

AlmostText == <<"<almost>">>
\* The gap in lines above which a user turn gets a skip link (1250).
GapLimit == 100

\* text.split('\n') for a text of an entry: <long> stands for a text of
\* LongLines lines, which bring the header of the next section one line
\* more than GapLimit below the header of a user section that holds the
\* text alone (header, blank, text, three lines of separator), <almost>
\* for a text of one line less; every other text of the model is one line.
LongLines == GapLimit - 4
TextLines(text) ==
    IF text = LongText THEN [i \in 1..LongLines |-> Line("text", 0, <<"line">>)]
    ELSE IF text = AlmostText
    THEN [i \in 1..(LongLines - 1) |-> Line("text", 0, <<"line">>)]
    ELSE <<Line("text", 0, text)>>

\* is_compaction_message(text) (99-108), for the texts of the model.
IsCompactionMessage(text) ==
    Contains(LowerStr(text), <<"context", "was", "compacted">>)

\* format_tool_result(tool_name, result_content, is_error) (709-746); the
\* texts are short (no truncation) and hold no system reminder.
Fenced(text) == <<Mark("fence"), Line("result_text", 0, text), Mark("fence")>>
FormatToolResult(tool_name, text, is_error) ==
    IF text = <<>> THEN <<Mark("empty_result")>>
    ELSE IF is_error THEN Fenced(text)
    ELSE IF tool_name = "Task" THEN <<Line("quote", 0, text)>>
    ELSE IF tool_name \in {"Read", "Bash", "Grep", "Glob"} THEN Fenced(text)
    ELSE IF Head(text) \in {"{", "["} THEN Fenced(text)
    ELSE <<Line("result_text", 0, text)>>

\* increase_header_levels(text).split('\n') (229-238): the lines of the
\* plan, the headings one level deeper, and the empty string after the
\* last newline.
IncreaseHeaderLevels(plan) ==
    [i \in 1..Len(plan) |->
        OfPlan("plan_line", IF StartsWithHash(plan[i])
                            THEN [plan[i] EXCEPT !.ord = @ + 1] ELSE plan[i])]
    \o <<Blank>>

\* 'reject' in text.lower() or 'denied' in text.lower() (421)
SaysRejected(text) ==
    \E i \in 1..Len(text) : Lower(text[i]) \in {"reject", "rejected", "denied"}

\* The lines of the diff inside its fence (455-458).
DiffBlock(diff) ==
    <<Mark("changes"), Blank, Mark("fence_diff")>>
    \o [i \in 1..Len(diff) |->
           [Line("diff", 0, <<diff[i].tag>>) EXCEPT
               !.ln = IF diff[i].hdr = None THEN diff[i].ln ELSE Val(diff[i].hdr),
               !.hunk = diff[i].hunk]]
    \o <<Mark("fence")>>

\* The same with no note where there is no diff.
ChangesToNextOrNothing(content, next_plan) ==
    IF Truthy(content) /\ Truthy(next_plan)
    THEN IF GetPlanDiff(content, next_plan) # None
         THEN DiffBlock(Val(GetPlanDiff(content, next_plan)))
         ELSE <<>>
    ELSE <<>>
\* What follows the placeholder of a rejected plan (452-463).
ChangesToNext(content, next_plan) ==
    IF Truthy(content) /\ Truthy(next_plan)
    THEN IF GetPlanDiff(content, next_plan) # None
         THEN DiffBlock(Val(GetPlanDiff(content, next_plan)))
         ELSE <<Mark("note_nodiff")>>
    ELSE IF Truthy(content) THEN <<Mark("note_revised")>>
    ELSE <<>>

\* approved (420): the flag of the revision, or the text when it is None.
IsApproved(text, info) ==
    IF info.approved # None THEN Val(info.approved) ELSE SaysApproved(text)

\* The same with the placeholder of the first revision for every revision.
FormatPlanResultOfFirst(text, info) ==
    IF IsApproved(text, info)
    THEN <<Line("plan_approved", info.plan_index, <<>>), Blank>>
         \o (IF Truthy(info.content) THEN IncreaseHeaderLevels(Val(info.content))
             ELSE <<>>)
    ELSE IF SaysRejected(text)
    THEN <<Line("plan_rejected", info.plan_index, <<>>), Blank>>
         \o (IF text # <<>> THEN <<Line("reason", 0, text), Blank>> ELSE <<>>)
         \o <<Line("nav_placeholder", 0, <<>>)>>
         \o ChangesToNext(info.content, info.next_plan)
    ELSE <<Line("plan_status", 0, text)>>
\* format_plan_result(content, ...).split('\n') (410-467); the reason of a
\* rejection is its whole text (none of the patterns of 437-445 occurs).
FormatPlanResult(text, info) ==
    IF IsApproved(text, info)
    THEN <<Line("plan_approved", info.plan_index, <<>>), Blank>>
         \o (IF Truthy(info.content) THEN IncreaseHeaderLevels(Val(info.content))
             ELSE <<>>)
    ELSE IF SaysRejected(text)
    THEN <<Line("plan_rejected", info.plan_index, <<>>), Blank>>
         \o (IF text # <<>> THEN <<Line("reason", 0, text), Blank>> ELSE <<>>)
         \o <<Line("nav_placeholder", info.plan_index, <<>>)>>
         \o ChangesToNext(info.content, info.next_plan)
    ELSE <<Line("plan_status", 0, text)>>

\* format_plan_result called for the outcome of a revision whose content is
\* rejected_plan and whose next_plan is approved_plan.
CallFormatPlanResult(text, approved, plan_index) ==
    /\ phase = "diff"
    /\ phase' = "formatted"
    /\ plan_args' = [content |-> text, is_approved |-> approved,
                     plan_index |-> plan_index]
    /\ plan_result' = FormatPlanResult(text, [content |-> rejected_plan,
                                              next_plan |-> approved_plan,
                                              approved |-> approved,
                                              plan_index |-> plan_index])
    /\ UNCHANGED <<rejected_plan, approved_plan, raw_lines, diff_result, exceptDiff>>

NextDiff ==
    \/ CallGetPlanDiff
    \/ \E text \in {RejectedText, ApprovedText}, approved \in {None, Some(FALSE)} :
           CallFormatPlanResult(text, approved, 0)

SpecDiff == InitDiff /\ [][NextDiff]_vars

\* format_plan_result on plans with headings (SpecFormat): a heading, a
\* heading indented by two spaces, a comment of a code block and another line.
FormatLines == {PlanLine("heading", 0, 1, "A"), PlanLine("heading", 2, 1, "A"),
                PlanLine("comment", 0, 1, "c"), PlanLine("other", 0, 0, "X")}
FormatTexts == SeqsUpTo(FormatLines, MaxPlanLines)
NextTexts == {<<>>, <<PlanLine("other", 0, 0, "X")>>}
NeitherText == <<"needs", "work">>

InitFormat ==
    /\ phase = "diff"
    /\ rejected_plan \in {None} \cup {Some(t) : t \in FormatTexts}
    /\ approved_plan \in {None} \cup {Some(t) : t \in NextTexts}
    /\ raw_lines = <<>>
    /\ diff_result = None
    /\ plan_args = <<>>
    /\ plan_result = <<>>
    /\ OnlyDiff

NextFormat ==
    \E text \in {RejectedText, ApprovedText, NeitherText},
       approved \in {None, Some(FALSE), Some(TRUE)}, plan_index \in {0, 1} :
        CallFormatPlanResult(text, approved, plan_index)

SpecFormat == InitFormat /\ [][NextFormat]_vars

\* An ATX heading of markdown, at most three spaces before its # characters.
IsMarkdownHeading(l) == l.kind = "heading"

\* format_plan_result returned the block of an approved plan that has a text.
IsApprovedBlock ==
    /\ phase = "formatted"
    /\ plan_result[1].k = "plan_approved"
    /\ Truthy(rejected_plan)

\* The lines of the plan as the block shows them, after its two first lines
\* and before the empty string that ends it.
PlanShown == [i \in 1..(Len(plan_result) - 3) |-> plan_result[i + 2].ln]

\* C24: the block of an approved plan shows the lines of the plan, as many
\* and in their order, every markdown heading one level deeper and every
\* other line as it is.
C24_HeadingsOneDeeper ==
    IsApprovedBlock =>
        /\ Len(PlanShown) = Len(Val(rejected_plan))
        /\ \A i \in 1..Len(PlanShown) :
               PlanShown[i] =
                   IF IsMarkdownHeading(Val(rejected_plan)[i])
                   THEN [Val(rejected_plan)[i] EXCEPT !.ord = @ + 1]
                   ELSE Val(rejected_plan)[i]

\* What holds instead: the same for the plans that hold headings at the
\* start of a line and lines without a # character.
HeadingsAtLineStart ==
    (IsApprovedBlock /\ \A i \in 1..Len(Val(rejected_plan)) :
                            Val(rejected_plan)[i].kind # "comment"
                            /\ Val(rejected_plan)[i].indent = 0) =>
        /\ Len(PlanShown) = Len(Val(rejected_plan))
        /\ \A i \in 1..Len(PlanShown) :
               PlanShown[i] =
                   IF IsMarkdownHeading(Val(rejected_plan)[i])
                   THEN [Val(rejected_plan)[i] EXCEPT !.ord = @ + 1]
                   ELSE Val(rejected_plan)[i]

\* A comment of a code block shown with one # more.
CommentShifted ==
    /\ IsApprovedBlock
    /\ \E i \in 1..Len(PlanShown) :
           /\ Val(rejected_plan)[i] = PlanLine("comment", 0, 1, "c")
           /\ PlanShown[i] = PlanLine("comment", 0, 2, "c")

\* An indented heading shown at its level.
IndentedHeadingKept ==
    /\ IsApprovedBlock
    /\ \E i \in 1..Len(PlanShown) :
           /\ Val(rejected_plan)[i] = PlanLine("heading", 2, 1, "A")
           /\ PlanShown[i] = Val(rejected_plan)[i]

\* format_plan_result was called for a revision resolved as rejected.
ResolvedRejected == phase = "formatted" /\ plan_args.is_approved = Some(FALSE)

\* The positions of the navigation placeholders of the block.
PlaceholdersAt == {i \in 1..Len(plan_result) : plan_result[i].k = "nav_placeholder"}
\* The lines of the block after its placeholder.
AfterPlaceholder ==
    SubSeq(plan_result, The(PlaceholdersAt) + 1, Len(plan_result))
\* A fenced diff: its title, the opening fence, lines of a diff, the fence.
IsFencedDiff(lines) ==
    /\ Len(lines) > 4
    /\ lines[1].k = "changes" /\ lines[3].k = "fence_diff"
    /\ \A i \in 4..(Len(lines) - 1) : lines[i].k = "diff"
    /\ \E i \in 4..(Len(lines) - 1) : lines[i].t \in {<<"-">>, <<"+">>}
    /\ lines[Len(lines)].k = "fence"
IsNote(lines) == Len(lines) = 1 /\ lines[1].k \in {"note_nodiff", "note_revised"}

\* One placeholder, with the plan index of the revision.
OnePlaceholder ==
    /\ Cardinality(PlaceholdersAt) = 1
    /\ plan_result[The(PlaceholdersAt)].n = plan_args.plan_index

C25_PlanStatus ==
    /\ ResolvedRejected
    /\ ~SaysRejected(plan_args.content)
    /\ plan_result[1].k = "plan_status"

\* The rejected plan has no successor text, or the two texts are identical.
NothingToDiff ==
    \/ ~Truthy(approved_plan)
    \/ rejected_plan = approved_plan

\* format_plan_result returned the block of a rejected plan.
IsRejectedBlock == phase = "formatted" /\ plan_result[1].k = "plan_rejected"

\* The kinds of the lines of the block.
BlockKinds == {plan_result[i].k : i \in 1..Len(plan_result)}

\* get_plan_diff returns None for these inputs.
NoDiffReturned == (phase = "diffed" /\ NothingToDiff) => diff_result = None

C13_Identical ==
    /\ IsRejectedBlock
    /\ Truthy(rejected_plan)
    /\ rejected_plan = approved_plan
    /\ "note_nodiff" \in BlockKinds

\* The blocks of a message: text, tool_use and tool_result items.
NoInput == [file_path |-> <<>>, content |-> <<>>, subagent_type |-> ""]
Item(type, name, id, text) ==
    [type |-> type, name |-> name, id |-> id, text |-> text,
     is_error |-> FALSE, input |-> NoInput]
TextItem(text) == Item("text", "", "", text)
ToolUse(name, id) == Item("tool_use", name, id, <<>>)
WriteUse(id, path, content) ==
    [ToolUse("Write", id) EXCEPT !.input = [NoInput EXCEPT !.file_path = path,
                                                           !.content = content]]
ToolResult(id, text) == Item("tool_result", "", id, text)

\* An entry: its role (message.role, or its type), its content (a list of
\* blocks, or for str a plain string: the text of its one item) and whether
\* it is an error entry of parse_entries.
Message(role, content) ==
    [role |-> role, content |-> content, str |-> FALSE, error |-> FALSE]
StrMessage(role, text) ==
    [role |-> role, content |-> <<TextItem(text)>>, str |-> TRUE, error |-> FALSE]
ErrorLine == [role |-> "unknown", content |-> <<>>, str |-> FALSE, error |-> TRUE]

\* The blocks the two passes of parse_entries look at (490-492, 559-561),
\* in log order.
RECURSIVE AllItems(_)
AllItems(es) ==
    IF es = <<>> THEN <<>>
    ELSE (IF Head(es).str \/ Head(es).error THEN <<>> ELSE Head(es).content)
         \o AllItems(Tail(es))

\* The first pass (478-530) over the blocks from p on; the logs of the
\* rendering model hold no Edit.
RECURSIVE FirstPassFrom(_, _, _, _)
FirstPassFrom(items, p, cur, timeline) ==
    IF p > Len(items) THEN timeline
    ELSE IF items[p].type = "tool_use" /\ items[p].name = "Write"
    THEN FirstPassFrom(items, p + 1,
             ApplyWrite(cur, items[p].input.file_path, items[p].input.content),
             timeline)
    ELSE IF items[p].type = "tool_use" /\ items[p].name = "ExitPlanMode"
    THEN FirstPassFrom(items, p + 1, cur, SnapshotPlan(timeline, items[p].id, cur))
    ELSE IF items[p].type = "tool_result"
    THEN FirstPassFrom(items, p + 1, cur,
             ResolveApproval(timeline, items[p].id, items[p].text))
    ELSE FirstPassFrom(items, p + 1, cur, timeline)
ExitPlanModesOf(es) ==
    BuildExitPlanModes(FirstPassFrom(AllItems(es), 1, None, <<>>))

\* ask_user_questions (566-567): the ids of the questions of the whole log.
AskUserQuestionsOf(es) ==
    {AllItems(es)[p].id : p \in {q \in 1..Len(AllItems(es)) :
        /\ AllItems(es)[q].type = "tool_use"
        /\ AllItems(es)[q].name = "AskUserQuestion"}}

\* The outcomes that have the id, wherever the question is.
AnswerPositionsAnywhere(items, id) ==
    {q \in 1..Len(items) : items[q].type = "tool_result" /\ items[q].id = id}
\* ask_user_answers (569-572): for a question's id the content of the last
\* outcome that has the id and comes after a question that has it.
AnswerPositions(items, id) ==
    {q \in 1..Len(items) :
        /\ items[q].type = "tool_result" /\ items[q].id = id
        /\ \E p \in 1..(q - 1) :
              /\ items[p].type = "tool_use" /\ items[p].name = "AskUserQuestion"
              /\ items[p].id = id}
AskUserAnswersOf(es) ==
    [id \in {i \in AskUserQuestionsOf(es) : AnswerPositions(AllItems(es), i) # {}} |->
        AllItems(es)[CHOOSE q \in AnswerPositions(AllItems(es), id) :
                        \A r \in AnswerPositions(AllItems(es), id) : r <= q].text]

\* The input of every AskUserQuestion of the model.
AskInput == [question |-> TheQuestion, labels |-> <<<<"A">>, <<"B">>>>]

\* format_ask_user_question_with_answer(...).split('\n')
AskLineOf(l) ==
    CASE l.k = "blank" -> Blank
      [] l.k = "question" -> Line("ask_question", 0, l.text)
      [] l.k = "custom" -> Line("ask_custom", l.idx, l.text)
      [] l.k = "option" /\ l.sel -> Line("ask_selected", l.idx, l.text)
      [] OTHER -> Line("ask_option", l.idx, l.text)
AskLinesOf(formatted) == [i \in 1..Len(formatted) |-> AskLineOf(formatted[i])]
AskLines(answer) == AskLinesOf(FormatQuestion(AskInput, answer))

\* The visibility options other than show_tools, and their defaults.
Options(thinking, explore, subagents) ==
    [show_thinking |-> thinking, show_explore_full |-> explore,
     show_subagents_full |-> subagents]
DefaultOptions == Options(FALSE, FALSE, FALSE)

\* What extract_message_content is given besides the entry.
ContextWith(es, tools, opts) ==
    [show_tools |-> tools,
     show_thinking |-> opts.show_thinking,
     show_explore_full |-> opts.show_explore_full,
     show_subagents_full |-> opts.show_subagents_full,
     ask_user_questions |-> AskUserQuestionsOf(es),
     ask_user_answers |-> AskUserAnswersOf(es),
     exit_plan_modes |-> ExitPlanModesOf(es)]
Context(es, tools) == ContextWith(es, tools, DefaultOptions)

\* tool_id_to_name[tool_id] = tool_name (843), .get(tool_id, 'unknown') (892)
SetName(names, id, name) ==
    [i \in DOMAIN names \cup {id} |-> IF i = id THEN name ELSE names[i]]
GetNameOrNothing(names, id) == IF id \in DOMAIN names THEN names[id] ELSE ""
GetName(names, id) == IF id \in DOMAIN names THEN names[id] ELSE "unknown"
NoNames == [i \in {} |-> ""]

\* What the loop over the blocks (820-934) has collected.
\* tool_id_to_input starts empty: with the default options, those of
\* format_jsonl in this model, nothing reads it.
Collected(parts, shown, has_plan, has_text, has_tool_result, names) ==
    [parts |-> parts, shown |-> shown, has_plan |-> has_plan, has_text |-> has_text,
     has_tool_result |-> has_tool_result, names |-> names, inputs |-> NoNames]

\* tool_id_to_input.get(tool_id, {}).get('subagent_type', '') (904-905)
GetSubagentType(inputs, id) == IF id \in DOMAIN inputs THEN inputs[id] ELSE ""

\* is_explore, is_subagent (856-860, 902-907)
IsExplore(name, subagent_type) == name = "Task" /\ subagent_type = "Explore"
IsSubagent(name, subagent_type) ==
    name = "Task" /\ subagent_type # "" /\ subagent_type # "Explore"

\* show_tools or (is_explore and show_explore_full)
\*            or (is_subagent and show_subagents_full) (874, 924)
ToolShownAlways(ctx, name, subagent_type) == TRUE
ToolShown(ctx, name, subagent_type) ==
    \/ ctx.show_tools
    \/ IsExplore(name, subagent_type) /\ ctx.show_explore_full
    \/ IsSubagent(name, subagent_type) /\ ctx.show_subagents_full

\* item_type == 'text' (827-836)
CollectText(item, acc) ==
    IF item.text = <<>> THEN acc
    ELSE IF IsCompactionMessage(item.text)
    THEN [acc EXCEPT !.parts = Append(@, <<Mark("marker")>>)]
    ELSE [acc EXCEPT !.parts = Append(@, TextLines(item.text)),
                     !.has_text = TRUE]

\* item_type == 'tool_use' (838-878)
CollectToolUse(item, acc, ctx) ==
    LET named == [acc EXCEPT !.names = SetName(@, item.id, item.name),
                             !.inputs = SetName(@, item.id, item.input.subagent_type)]
    IN  IF item.name = "AskUserQuestion"
        THEN IF item.id \in DOMAIN ctx.ask_user_answers
                /\ ctx.ask_user_answers[item.id] # <<>>
             THEN [named EXCEPT
                     !.parts = @ \o <<<<Blank, Mark("question_intro"), Blank>>,
                                      AskLines(ctx.ask_user_answers[item.id])>>,
                     !.shown = @ \cup {item.id}]
             ELSE [named EXCEPT
                     !.parts = @ \o <<<<Blank, Mark("question_intro"), Blank>>,
                                      AskLines(<<>>)>>]
        ELSE IF item.name = "ExitPlanMode"
        THEN [named EXCEPT !.parts = Append(@, <<Blank, Mark("submit")>>)]
        ELSE IF ToolShown(ctx, item.name, item.input.subagent_type)
        THEN [named EXCEPT
                !.parts = @ \o <<<<Blank, Line("tool", 0, <<item.name>>)>>,
                                 <<Line("tool_input", 0, <<item.name>>)>>>>]
        ELSE named

\* item_type == 'tool_result' (880-927)
CollectToolResult(item, acc, ctx) ==
    LET seen == [acc EXCEPT !.has_tool_result = TRUE]
    IN  IF item.id \in acc.shown THEN seen
        ELSE IF item.id \in ctx.ask_user_questions THEN seen
        ELSE IF item.id \in DOMAIN ctx.exit_plan_modes
        THEN [seen EXCEPT
                !.parts = Append(@, <<Blank>> \o
                            FormatPlanResult(item.text, ctx.exit_plan_modes[item.id])),
                !.has_plan = TRUE]
        ELSE IF ToolShown(ctx, GetName(acc.names, item.id),
                          GetSubagentType(acc.inputs, item.id))
        THEN [seen EXCEPT
                !.parts = @ \o
                    <<<<Blank,
                        Line(IF item.is_error THEN "error_header" ELSE "result_header",
                             0, <<GetName(acc.names, item.id)>>),
                        Blank>>,
                      FormatToolResult(GetName(acc.names, item.id), item.text,
                                       item.is_error)>>]
        ELSE seen

\* item_type == 'thinking' (929-934)
CollectThinking(item, acc, ctx) ==
    IF ctx.show_thinking /\ item.text # <<>>
    THEN [acc EXCEPT !.parts = @ \o <<<<Blank, Mark("thinking_intro")>>,
                                       <<Line("thinking", 0, item.text)>>>>]
    ELSE acc

CollectItem(item, acc, ctx) ==
    CASE item.type = "text" -> CollectText(item, acc)
      [] item.type = "tool_use" -> CollectToolUse(item, acc, ctx)
      [] item.type = "tool_result" -> CollectToolResult(item, acc, ctx)
      [] item.type = "thinking" -> CollectThinking(item, acc, ctx)
      [] OTHER -> acc
RECURSIVE CollectFrom(_, _, _, _)
CollectFrom(items, p, acc, ctx) ==
    IF p > Len(items) THEN acc
    ELSE The({CollectFrom(items, p + 1, next, ctx) :
                 next \in {CollectItem(items[p], acc, ctx)}})

\* Python's str.strip() on lines: the empty lines at both ends go.
RECURSIVE StripLeft(_)
StripLeft(lines) ==
    IF lines # <<>> /\ Head(lines).k = "" THEN StripLeft(Tail(lines)) ELSE lines
RECURSIVE StripRight(_)
StripRight(lines) ==
    IF lines # <<>> /\ lines[Len(lines)].k = ""
    THEN StripRight(SubSeq(lines, 1, Len(lines) - 1)) ELSE lines
Strip(lines) == StripRight(StripLeft(lines))

\* '\n'.join(content_parts)
RECURSIVE JoinRange(_, _, _)
JoinRange(parts, lo, hi) ==
    IF lo > hi THEN <<>>
    ELSE IF lo = hi THEN parts[lo]
    ELSE JoinRange(parts, lo, (lo + hi) \div 2)
         \o JoinRange(parts, (lo + hi) \div 2 + 1, hi)
Join(parts) == JoinRange(parts, 1, Len(parts))

\* len(line), by the kind of the line.
LineChars(l) ==
    CASE l.k = "" -> 0
      [] l.k \in {"text", "result_text", "ask_question"} -> TextChars(l.t)
      [] l.k = "marker" -> 14
      [] l.k = "submit" -> 38
      [] l.k = "fence" -> 3
      [] OTHER -> 30
RECURSIVE CharsOfRange(_, _, _)
CharsOfRange(lines, lo, hi) ==
    IF lo > hi THEN 0
    ELSE IF lo = hi THEN LineChars(lines[lo])
    ELSE CharsOfRange(lines, lo, (lo + hi) \div 2) + 1
         + CharsOfRange(lines, (lo + hi) \div 2 + 1, hi)
LinesChars(lines) == CharsOfRange(lines, 1, Len(lines))

\* The limits of is_brief_message (145, 149).
ActionLimit == 200
BriefLimit == 300

\* text_lower.startswith(p) for one of action_patterns (137-141)
ActionPrefixes ==
    {<<"now", "let", "me">>, <<"now", "i'll">>, <<"now", "i", "will">>,
     <<"let", "me">>, <<"i'll", "now">>, <<"i", "will", "now">>}
IsActionAnnouncement(lines) ==
    /\ lines # <<>>
    /\ Head(lines).k = "text"
    /\ \/ \E pre \in ActionPrefixes :
             /\ Len(Head(lines).t) > Len(pre)
             /\ OccursAt(LowerStr(Head(lines).t), pre, 1)
       \/ OccursAt(LowerStr(Head(lines).t), <<"now", "update">>, 1)

\* is_brief_message(text, precedes_tool) (131-155), text being Join(parts).
IsBriefOf(text, precedes_tool) ==
    \/ /\ IsActionAnnouncement(text) \/ precedes_tool
       /\ LinesChars(text) <= ActionLimit
    \/ /\ LinesChars(text) <= BriefLimit
       /\ ~(text # <<>> /\ Head(text).k = "text" /\ Head(Head(text).t) = "#")
       /\ ~\E i \in 2..(Len(text) - 1) : text[i].k = ""
IsBriefMessage(lines, precedes_tool) == IsBriefOf(Strip(lines), precedes_tool)

\* any(... item.get('type') == 'tool_use' ...) (814-817)
HasToolUse(items) == \E p \in 1..Len(items) : items[p].type = "tool_use"

\* content_type (941-948)
ContentType(has_text, has_tool_use, has_tool_result) ==
    IF has_text /\ ~has_tool_use /\ ~has_tool_result THEN "text"
    ELSE IF has_tool_use /\ ~has_text THEN "tool_call"
    ELSE IF has_tool_result /\ ~has_text THEN "tool_result"
    ELSE "mixed"

\* What extract_message_content returns, and tool_id_to_name after it.
Extracted(parts, is_brief, has_plan, content_type, names) ==
    [parts |-> parts, is_brief |-> is_brief, has_plan |-> has_plan,
     content_type |-> content_type, names |-> names]

\* The end of extract_message_content (936-950).
Finish(acc, has_tool_use) ==
    Extracted(acc.parts,
              IsBriefMessage(Join(acc.parts), has_tool_use) /\ ~acc.has_plan,
              acc.has_plan,
              ContentType(acc.has_text, has_tool_use, acc.has_tool_result),
              acc.names)

\* extract_message_content(entry, ...) (749-950)
ExtractMessageContent(entry, ctx, names) ==
    IF entry.error
    THEN Extracted(<<<<Mark("error")>>>>, FALSE, FALSE, "text", names)
    ELSE IF entry.str /\ entry.content[1].text # <<>>
            /\ IsCompactionMessage(entry.content[1].text)
    THEN Extracted(<<<<Mark("marker")>>>>, FALSE, FALSE, "text", names)
    ELSE IF entry.str
    THEN Finish(Collected(IF entry.content[1].text # <<>>
                          THEN <<TextLines(entry.content[1].text)>> ELSE <<>>,
                          {}, FALSE, entry.content[1].text # <<>>, FALSE, names),
                FALSE)
    ELSE The({Finish(acc, HasToolUse(entry.content)) :
                 acc \in {CollectFrom(entry.content, 1,
                              Collected(<<>>, {}, FALSE, FALSE, FALSE, names), ctx)}})

\* What the look-ahead of format_jsonl (1056-1099) has reached: the entry j
\* it stands at, brief_messages, tool_id_to_name and, as history, the
\* numbers of the entries absorbed.
Ahead(j, msgs, names, absorbed) ==
    [j |-> j, msgs |-> msgs, names |-> names, absorbed |-> absorbed]

\* One entry of the look-ahead, given what extract_message_content returned
\* for it: TRUE when the loop goes on to the next entry.
GoesOn(entry, x) ==
    IF entry.role # "assistant" THEN x.parts = <<>>
    ELSE x.parts = <<>> \/ (x.is_brief /\ ~x.has_plan)
Absorbs(entry, x) ==
    entry.role = "assistant" /\ x.parts # <<>> /\ x.is_brief /\ ~x.has_plan

RECURSIVE LookAhead(_, _, _)
\* The same, the look-ahead going past an entry that would end the batch.
LookAheadStepPast(es, ctx, la, x) ==
    The({LookAhead(es, ctx, next) :
            next \in {Ahead(la.j + 1,
                            IF Absorbs(es[la.j], x)
                            THEN Append(la.msgs, Strip(Join(x.parts))) ELSE la.msgs,
                            x.names,
                            IF Absorbs(es[la.j], x)
                            THEN Append(la.absorbed, la.j) ELSE la.absorbed)}})
LookAheadStep(es, ctx, la, x) ==
    IF GoesOn(es[la.j], x)
    THEN The({LookAhead(es, ctx, next) :
                 next \in {Ahead(la.j + 1,
                                 IF Absorbs(es[la.j], x)
                                 THEN Append(la.msgs, Strip(Join(x.parts))) ELSE la.msgs,
                                 x.names,
                                 IF Absorbs(es[la.j], x)
                                 THEN Append(la.absorbed, la.j) ELSE la.absorbed)}})
    ELSE Ahead(la.j, la.msgs, x.names, la.absorbed)
LookAhead(es, ctx, la) ==
    IF la.j > Len(es) THEN la
    ELSE The({LookAheadStep(es, ctx, la, x) :
                 x \in {ExtractMessageContent(es[la.j], ctx, la.names)}})

\* The state of the loop of format_jsonl (1016-1021) and, as history, the
\* sections emitted: the kind of each, the numbers of the entries it shows
\* and the lines of output_lines it takes.
Loop(i, out, user_msg_index, user_has_plan, names, secs) ==
    [i |-> i, out |-> out, user_msg_index |-> user_msg_index,
     user_has_plan |-> user_has_plan, names |-> names, secs |-> secs]
Section(kind, of, out, lines) ==
    [kind |-> kind, entries |-> of, first |-> Len(out) + 1, last |-> Len(out) + Len(lines)]
Emit(st, i, kind, of, lines, user_msg_index, user_has_plan, names) ==
    Loop(i, st.out \o lines, user_msg_index, user_has_plan, names,
         Append(st.secs, Section(kind, of, st.out, lines)))

\* The lines before the sections (976-1013): title, source, the metadata
\* of the first entry that is not an error (the entries of the model have
\* none of the six fields), a rule.
Preamble(es) ==
    <<Mark("title"), Mark("source"), Blank>>
    \o (IF \E i \in 1..Len(es) : ~es[i].error
        THEN <<Mark("metadata_header"), Line("total_messages", Len(es), <<>>), Blank>>
        ELSE <<>>)
    \o <<Mark("rule"), Blank>>

\* "\n---\n"
EndOfSection == <<Blank, Mark("rule"), Blank>>

\* The compaction section (1047-1051).
EmitCompacted(st, x) ==
    Emit(st, st.i + 1, "compacted", <<st.i>>,
         <<Mark("compacted_header"), Blank, Mark("rule"), Blank>>,
         st.user_msg_index, st.user_has_plan, x.names)

\* The progress section (1101-1113).
EmitProgress(st, la) ==
    Emit(st, la.j, "progress", la.absorbed,
         <<Mark("progress_header"), Blank>> \o Join(la.msgs) \o EndOfSection,
         st.user_msg_index, st.user_has_plan, la.names)

\* any('Plan Approved' in p or 'Plan Rejected' in p for p in content_parts)
ShowsPlan(parts) ==
    \E p \in 1..Len(parts) : \E q \in 1..Len(parts[p]) :
        parts[p][q].k \in {"plan_approved", "plan_rejected"}

\* The header of a regular section (1117-1137).
Numbered(entry, x) == entry.role = "user" /\ x.content_type # "tool_result"
Header(entry, x, tools, user_msg_index) ==
    IF Numbered(entry, x) THEN Line("user_header", user_msg_index, <<>>)
    ELSE IF tools /\ x.content_type = "tool_call" THEN Mark("tool_call_header")
    ELSE IF tools /\ x.content_type = "tool_result" THEN Mark("tool_result_header")
    ELSE IF entry.role = "user" THEN Mark("plain_user_header")
    ELSE Mark("claude_header")

\* The regular section (1115-1144).
EmitRegular(es, ctx, st, x, names) ==
    Emit(st, st.i + 1, "regular", <<st.i>>,
         <<Header(es[st.i], x, ctx.show_tools, st.user_msg_index), Blank>>
            \o Join(x.parts) \o EndOfSection,
         IF Numbered(es[st.i], x) THEN st.user_msg_index + 1 ELSE st.user_msg_index,
         IF Numbered(es[st.i], x) /\ ShowsPlan(x.parts)
         THEN st.user_has_plan \cup {st.user_msg_index} ELSE st.user_has_plan,
         names)

\* The batching (1053-1113), given the look-ahead.
EmitBatched(es, ctx, st, x, la) ==
    IF Len(la.msgs) > 1 THEN EmitProgress(st, la)
    ELSE EmitRegular(es, ctx, st, x, la.names)

\* One turn of the loop (1022-1144), given what extract_message_content
\* returned for entry i.
LoopStep(es, ctx, st, x) ==
    IF x.parts = <<>>
    THEN Loop(st.i + 1, st.out, st.user_msg_index, st.user_has_plan, x.names, st.secs)
    ELSE IF x.parts = <<<<Mark("marker")>>>> THEN EmitCompacted(st, x)
    ELSE IF es[st.i].role = "assistant" /\ x.is_brief /\ ~x.has_plan
    THEN The({EmitBatched(es, ctx, st, x, la) :
                 la \in {LookAhead(es, ctx, Ahead(st.i + 1, <<Strip(Join(x.parts))>>,
                                                  x.names, <<st.i>>))}})
    ELSE EmitRegular(es, ctx, st, x, x.names)

RECURSIVE LoopFrom(_, _, _)
LoopFrom(es, ctx, st) ==
    IF st.i > Len(es) THEN st
    ELSE The({LoopFrom(es, ctx, next) :
                 next \in {LoopStep(es, ctx, st, x) :
                              x \in {ExtractMessageContent(es[st.i], ctx, st.names)}}})

\* format_jsonl up to line 1146: the loop from the first entry on.
RenderBody(es, tools) ==
    The({LoopFrom(es, ctx, Loop(1, Preamble(es), 0, {}, NoNames, <<>>)) :
            ctx \in {Context(es, tools)}})

----------------------------------------------------------------------------
(* add_navigation_links and find_user_for_plan (src/format_jsonl.py        *)
(* 1161-1270).  Line numbers are Python's, counted from 0: line i of the   *)
(* text is lines[i + 1].                                                   *)

\* How far below a plan header its placeholder is looked for (1184).
NavWindow == 100

\* plan_info (1166-1170): plan_index -> approved.
PlanInfoOf(epm) ==
    [idx \in {epm[id].plan_index : id \in DOMAIN epm} |->
        epm[CHOOSE id \in DOMAIN epm : epm[id].plan_index = idx].approved]

\* first_approved_idx (1173-1174), None when no revision is approved.
ApprovedIndices(plan_info) == {idx \in DOMAIN plan_info : plan_info[idx] = Some(TRUE)}
Least(S) == CHOOSE x \in S : \A y \in S : x <= y
Greatest(S) == CHOOSE x \in S : \A y \in S : y <= x
FirstApprovedIdx(plan_info) ==
    IF ApprovedIndices(plan_info) = {} THEN None
    ELSE Some(Least(ApprovedIndices(plan_info)))

IsPlanHeader(l) == l.k \in {"plan_approved", "plan_rejected"}

\* The placeholders within the window below line i (1184-1188).
MarkersBelow(lines, i) ==
    {j \in i..(Min(i + NavWindow, Len(lines)) - 1) : lines[j + 1].k = "nav_placeholder"}

SetPosition(pos, idx, i) ==
    [x \in DOMAIN pos \cup {idx} |-> IF x = idx THEN i ELSE pos[x]]

\* 1184-1188: the header at line i takes the index of the first placeholder.
PositionByMarker(lines, i, pos) ==
    IF IsPlanHeader(lines[i + 1]) /\ MarkersBelow(lines, i) # {}
    THEN SetPosition(pos, lines[Least(MarkersBelow(lines, i)) + 1].n, i)
    ELSE pos

\* 1190-1194: an approved header takes the first approved index without a
\* position.
PositionByOrder(lines, i, plan_info, pos) ==
    IF lines[i + 1].k = "plan_approved" /\ ApprovedIndices(plan_info) \ DOMAIN pos # {}
    THEN SetPosition(pos, Least(ApprovedIndices(plan_info) \ DOMAIN pos), i)
    ELSE pos

\* plan_positions (1177-1194), from line i on.
\* A line that is no plan header leaves the positions as they are: the
\* loop goes from plan header to plan header.
PlanHeadersFrom(lines, i) == {h \in i..(Len(lines) - 1) : IsPlanHeader(lines[h + 1])}
RECURSIVE PlanPositionsFrom(_, _, _, _)
PlanPositionsFrom(lines, i, plan_info, pos) ==
    IF PlanHeadersFrom(lines, i) = {} THEN pos
    ELSE The({PlanPositionsFrom(lines, h + 1, plan_info,
                                PositionByOrder(lines, h, plan_info,
                                                PositionByMarker(lines, h, pos))) :
                 h \in {Least(PlanHeadersFrom(lines, i))}})
NoPositions == [x \in {} |-> 0]
PlanPositions(lines, plan_info) == PlanPositionsFrom(lines, 0, plan_info, NoPositions)

\* user_positions (1196-1199): <<line number, user index>>, in line order.
UserPositions(lines) ==
    SelectAt([i \in 1..Len(lines) |-> <<i - 1, lines[i].n>>],
             {i \in 1..Len(lines) : lines[i].k = "user_header"}, 1)

\* find_user_for_plan(plan_idx, user_positions, plan_positions) (1261-1270)
FindUserForPlan(plan_idx, user_positions, plan_positions) ==
    IF plan_idx \notin DOMAIN plan_positions THEN None
    ELSE IF \A u \in 1..Len(user_positions) :
                user_positions[u][1] >= plan_positions[plan_idx]
    THEN None
    ELSE Some(user_positions[Greatest({u \in 1..Len(user_positions) :
                 user_positions[u][1] < plan_positions[plan_idx]})][2])

\* A link, and the element of lines that holds links: '\n' + links + '\n'.
\* The n of the line is history: the revision whose placeholder it replaces.
Link(label, target) == [label |-> label, target |-> target]
LinkElement(k, n, links) == <<Blank, [Line(k, n, <<>>) EXCEPT !.links = links], Blank>>

\* nav_links (1207-1218) for the placeholder of revision plan_idx.
NavLinks(plan_idx, plan_info, user_positions, plan_positions) ==
    (IF plan_idx + 1 \in DOMAIN plan_info
     THEN <<Link("next", FindUserForPlan(plan_idx + 1, user_positions, plan_positions))>>
     ELSE <<>>)
    \o (IF /\ FirstApprovedIdx(plan_info) # None
           /\ Val(FirstApprovedIdx(plan_info)) > plan_idx
           /\ FindUserForPlan(Val(FirstApprovedIdx(plan_info)), user_positions,
                              plan_positions) # None
        THEN <<Link("approved",
                    FindUserForPlan(Val(FirstApprovedIdx(plan_info)), user_positions,
                                    plan_positions))>>
        ELSE <<>>)

\* result_lines (1202-1223), from line i on: a list of elements, each the
\* lines of one string.
ResultOfLine(l, plan_info, user_positions, plan_positions) ==
    IF l.k # "nav_placeholder" THEN <<<<l>>>>
    ELSE IF NavLinks(l.n, plan_info, user_positions, plan_positions) = <<>>
    THEN <<>>
    ELSE <<LinkElement("nav", l.n,
                       NavLinks(l.n, plan_info, user_positions, plan_positions))>>
ResultLinesFrom(lines, i, plan_info, user_positions, plan_positions) ==
    JoinRange([j \in 1..Len(lines) |->
                  ResultOfLine(lines[j], plan_info, user_positions, plan_positions)],
              i + 1, Len(lines))

\* The same with the first user position of the document for the target.
SkipToFirstUser(i, user_positions) ==
    IF user_positions # <<>>
    THEN <<LinkElement("skip", 0, <<Link("skip", Some(user_positions[1][2]))>>)>>
    ELSE <<>>
\* The link after an approved plan at element i (1229-1234): to the first
\* user position with a line number above i.
SkipAfterPlan(i, user_positions) ==
    IF \E u \in 1..Len(user_positions) : user_positions[u][1] > i
    THEN <<LinkElement("skip", 0,
             <<Link("skip", Some(user_positions[Least({u \in 1..Len(user_positions) :
                                     user_positions[u][1] > i})][2]))>>)>>
    ELSE <<>>

\* final_lines (1226-1234), from element i on.
FinalOfLine(result_lines, i, user_positions) ==
    <<result_lines[i + 1]>>
    \o (IF \E q \in 1..Len(result_lines[i + 1]) :
               result_lines[i + 1][q].k = "plan_approved"
        THEN SkipAfterPlan(i, user_positions) ELSE <<>>)
FinalLinesFrom(result_lines, i, user_positions) ==
    JoinRange([j \in 1..Len(result_lines) |->
                  FinalOfLine(result_lines, j - 1, user_positions)],
              i + 1, Len(result_lines))

\* The same with a gap of GapLimit lines taken for a long one.
InsertionsAtLimit(user_positions, user_has_plan) ==
    SelectAt([j \in 1..Len(user_positions) |->
                 <<user_positions[j][1] + 2,
                   IF j < Len(user_positions) THEN user_positions[j + 1][2] ELSE 0>>],
             {j \in 1..(Len(user_positions) - 1) :
                 /\ user_positions[j][2] \notin user_has_plan
                 /\ user_positions[j + 1][1] - user_positions[j][1] >= GapLimit},
             1)
\* insertions (1238-1251): <<position, target>> for user position j.
Insertions(user_positions, user_has_plan) ==
    SelectAt([j \in 1..Len(user_positions) |->
                 <<user_positions[j][1] + 2,
                   IF j < Len(user_positions) THEN user_positions[j + 1][2] ELSE 0>>],
             {j \in 1..(Len(user_positions) - 1) :
                 /\ user_positions[j][2] \notin user_has_plan
                 /\ user_positions[j + 1][1] - user_positions[j][1] > GapLimit},
             1)

\* list.insert(pos, x) for pos < len(list)
InsertAt(s, pos, x) == SubSeq(s, 1, pos) \o <<x>> \o SubSeq(s, pos + 1, Len(s))

\* The insertions applied in reverse order (1254-1256).
RECURSIVE ApplyInsertions(_, _, _)
ApplyInsertions(final_lines, insertions, k) ==
    IF k = 0 THEN final_lines
    ELSE ApplyInsertions(
            IF insertions[k][1] < Len(final_lines)
            THEN InsertAt(final_lines, insertions[k][1],
                          LinkElement("skip", 0, <<Link("skip", Some(insertions[k][2]))>>))
            ELSE final_lines,
            insertions, k - 1)

\* add_navigation_links(content, exit_plan_modes, user_has_plan).split('\n')
LinkedLines(lines, plan_info, user_positions, plan_positions, user_has_plan) ==
    Join(ApplyInsertions(
            The({FinalLinesFrom(result_lines, 0, user_positions) :
                    result_lines \in {ResultLinesFrom(lines, 0, plan_info,
                                                      user_positions, plan_positions)}}),
            Insertions(user_positions, user_has_plan),
            Len(Insertions(user_positions, user_has_plan))))
AddNavigationLinks(lines, epm, user_has_plan) ==
    The({LinkedLines(lines, plan_info, user_positions, plan_positions, user_has_plan) :
            plan_info \in {PlanInfoOf(epm)},
            user_positions \in {UserPositions(lines)},
            plan_positions \in {PlanPositions(lines, PlanInfoOf(epm))}})

----------------------------------------------------------------------------
(* format_jsonl (953-1158) on the logs of the model.                       *)

\* The most entries a log of the navigation, of the batching and of the
\* tool-outcome model has.
MaxEntries == 4
MaxRun == 4
MaxCalls == 3
\* The most user entries a log of the skip-link model has.
MaxTurns == 3

\* The ids of the plan submissions of a log, in log order; toolu_0 is the
\* id of no invocation.
PlanId(k) == IF k = 0 THEN "toolu_0" ELSE <<"toolu_1", "toolu_2", "toolu_3", "toolu_4",
                                            "toolu_5", "toolu_6", "toolu_7">>[k]

\* The entries of the model, by shape; k is the number of submissions before.
\*   prompt          a user entry with plain string content
\*   submit          an assistant entry that invokes ExitPlanMode
\*   rejected, approved
\*                   a user entry that holds only the outcome of the last
\*                   submission (of no invocation when there is none)
\*   rejected_reply, approved_reply
\*                   the same with a text block before the outcome
\*   early_outcome   a user entry with the outcome of the NEXT submission
\*   status, done    an assistant entry with one short text
\*   essay           an assistant entry with one long text
\*   banner          an assistant entry whose text is a compaction banner
\*   hidden          a user entry with the outcome of no invocation
\*   ask, answer     an assistant entry that invokes AskUserQuestion (id
\*                   toolu_q); a user entry with the outcome of toolu_q
\*   read, output    an assistant entry that invokes Read (id toolu_r); a
\*                   user entry with the outcome of toolu_r
\*   long_prompt, almost_prompt
\*                   a user entry with a long plain string content
\*   approved_long, rejected_long, neither_long
\*                   a user entry with a long text block and the outcome of
\*                   the last submission, which says "Approved", "rejected"
\*                   or neither
MessageOf(shape, k) ==
    CASE shape = "prompt" -> StrMessage("user", PromptText)
      [] shape = "submit" -> Message("assistant", <<ToolUse("ExitPlanMode", PlanId(k + 1))>>)
      [] shape = "rejected" -> Message("user", <<ToolResult(PlanId(k), RejectedText)>>)
      [] shape = "approved" -> Message("user", <<ToolResult(PlanId(k), ApprovedText)>>)
      [] shape = "rejected_reply" ->
            Message("user", <<TextItem(PromptText), ToolResult(PlanId(k), RejectedText)>>)
      [] shape = "approved_reply" ->
            Message("user", <<TextItem(PromptText), ToolResult(PlanId(k), ApprovedText)>>)
      [] shape = "early_outcome" ->
            Message("user", <<ToolResult(PlanId(k + 1), ApprovedText)>>)
      [] shape = "status" -> Message("assistant", <<TextItem(StatusText)>>)
      [] shape = "done" -> Message("assistant", <<TextItem(DoneText)>>)
      [] shape = "essay" -> Message("assistant", <<TextItem(EssayText)>>)
      [] shape = "banner" -> Message("assistant", <<TextItem(BannerText)>>)
      [] shape = "hidden" -> Message("user", <<ToolResult("toolu_0", OkText)>>)
      [] shape = "ask" -> Message("assistant", <<ToolUse("AskUserQuestion", "toolu_q")>>)
      [] shape = "answer" -> Message("user", <<ToolResult("toolu_q", <<"A">>)>>)
      [] shape = "read" -> Message("assistant", <<ToolUse("Read", "toolu_r")>>)
      [] shape = "output" -> Message("user", <<ToolResult("toolu_r", OkText)>>)
      [] shape = "long_prompt" -> StrMessage("user", LongText)
      [] shape = "almost_prompt" -> StrMessage("user", AlmostText)
      [] shape = "approved_long" ->
            Message("user", <<TextItem(LongText), ToolResult(PlanId(k), ApprovedText)>>)
      [] shape = "rejected_long" ->
            Message("user", <<TextItem(LongText), ToolResult(PlanId(k), RejectedText)>>)
      [] shape = "neither_long" ->
            Message("user", <<TextItem(LongText), ToolResult(PlanId(k), NeitherText)>>)

RECURSIVE MessagesFrom(_, _, _)
MessagesFrom(shapes, p, k) ==
    IF p > Len(shapes) THEN <<>>
    ELSE <<MessageOf(shapes[p], k)>>
         \o MessagesFrom(shapes, p + 1, IF shapes[p] = "submit" THEN k + 1 ELSE k)
Messages(shapes) == MessagesFrom(shapes, 1, 0)

NavShapes == {"prompt", "submit", "rejected", "approved", "rejected_reply", "approved_reply"}
BatchShapes == {"status", "done", "essay", "banner", "hidden", "prompt"}
ToolShapes == {"ask", "answer", "read", "output", "hidden", "submit", "early_outcome"}
SkipShapes == {"prompt", "long_prompt", "almost_prompt", "approved_long",
               "rejected_long", "neither_long"}

InitRenderOf(logs) ==
    /\ phase = "render"
    /\ log \in logs
    /\ show_tools \in BOOLEAN
    /\ output_lines = <<>>
    /\ document = <<>>
    /\ plan_turns = {}
    /\ options = <<>>
    /\ extracted = <<>>
    /\ tool_id_to_name = <<>>
    /\ earlier = <<>>
    /\ sections = <<>>
    /\ OnlyRender
InitRender(shapes, n) == InitRenderOf({Messages(ss) : ss \in SeqsUpTo(shapes, n)})

InitNav == InitRender(NavShapes, MaxEntries)
InitBatch == InitRender(BatchShapes, MaxRun)
InitTool == InitRender(ToolShapes, MaxCalls)
\* A log of the skip-link model: no or one submission, then user entries.
InitSkip ==
    /\ InitRenderOf({Messages(first \o ss) : first \in {<<>>, <<"submit">>},
                                             ss \in SeqsUpTo(SkipShapes, MaxTurns)})
    /\ ~show_tools

\* format_jsonl(input_path, show_tools=...), the entries being those of log.
FormatJsonl ==
    /\ phase = "render"
    /\ phase' = "rendered"
    /\ \E body \in {RenderBody(log, show_tools)} :
          /\ output_lines' = body.out
          /\ sections' = body.secs
          /\ plan_turns' = body.user_has_plan
          /\ document' = The({AddNavigationLinks(body.out, epm, body.user_has_plan) :
                                 epm \in {ExitPlanModesOf(log)}})
    /\ UNCHANGED <<log, show_tools, options, extracted, tool_id_to_name, earlier,
                   exceptRender>>

NextRender == FormatJsonl

SpecNav == InitNav /\ [][NextRender]_vars
SpecBatch == InitBatch /\ [][NextRender]_vars
SpecTool == InitTool /\ [][NextRender]_vars
SpecSkip == InitSkip /\ [][NextRender]_vars

----------------------------------------------------------------------------
(* The navigation links of a rendered log (SpecNav).                       *)

\* The lines that open a section of the document.
SectionHeaders ==
    {"user_header", "plain_user_header", "claude_header", "progress_header",
     "tool_call_header", "tool_result_header", "compacted_header"}

\* The outcome of revision j is shown somewhere in the document.
RevisionShown(j) ==
    \E q \in 1..Len(document) : IsPlanHeader(document[q]) /\ document[q].n = j

\* The section of user turn u (from its header "USER #u" to the next
\* section header) shows the outcome of revision j.
TurnContains(u, j) ==
    \E h \in 1..Len(document) : \E q \in (h + 1)..Len(document) :
        /\ document[h].k = "user_header" /\ document[h].n = u
        /\ IsPlanHeader(document[q]) /\ document[q].n = j
        /\ \A m \in (h + 1)..(q - 1) : document[m].k \notin SectionHeaders

\* The links that replace the placeholder of revision i hold a link with
\* this label to the user turn that contains revision j.
LinksTo(i, label, j) ==
    \E q \in 1..Len(document) : \E x \in 1..Len(document[q].links) :
        /\ document[q].k = "nav" /\ document[q].n = i
        /\ document[q].links[x].label = label
        /\ document[q].links[x].target # None
        /\ TurnContains(Val(document[q].links[x].target), j)

\* The revisions whose placeholder format_plan_result has left.
Placeholders ==
    {output_lines[p].n : p \in {q \in 1..Len(output_lines) :
                                  output_lines[q].k = "nav_placeholder"}}
FirstApproved == FirstApprovedIdx(PlanInfoOf(ExitPlanModesOf(log)))

\* C1: the placeholder of every rejected revision i is replaced by a 'Next
\* revision' link to the user turn that contains revision i+1 whenever
\* revision i+1 exists, and by an 'Approved plan' link to the user turn that
\* contains the first approved revision whenever that revision exists and
\* comes after i.  (A revision is taken to exist when its outcome is shown.)
C1_LinksToContainingTurn ==
    phase = "rendered" =>
        \A i \in Placeholders :
            /\ RevisionShown(i + 1) => LinksTo(i, "next", i + 1)
            /\ (/\ FirstApproved # None
                /\ Val(FirstApproved) > i
                /\ RevisionShown(Val(FirstApproved)))
                    => LinksTo(i, "approved", Val(FirstApproved))

\* C2: every link of the document ('#-user-<N>') has for N the number of a
\* header 'USER #N' that the document holds.
C2_LinksTargetExistingTurns ==
    phase = "rendered" =>
        \A q \in 1..Len(document) : \A x \in 1..Len(document[q].links) :
            /\ document[q].links[x].target # None
            /\ \E h \in 1..Len(document) :
                  /\ document[h].k = "user_header"
                  /\ document[h].n = Val(document[q].links[x].target)

----------------------------------------------------------------------------
(* The batching of brief assistant entries (SpecBatch).                    *)

\* What extract_message_content returns for entry i of the log.
ExtractedAt(i) == ExtractMessageContent(log[i], Context(log, show_tools), NoNames)
RendersNoParts(i) == ExtractedAt(i).parts = <<>>

\* Entry i is a compaction banner: its one part is the compaction marker.
IsBanner(i) == ExtractedAt(i).parts = <<<<Mark("marker")>>>>

\* Entry i is an assistant entry that is brief and carries no plan result;
\* a banner has no text to show and is not taken for a brief entry.
BriefEntry(i) ==
    /\ log[i].role = "assistant"
    /\ ~RendersNoParts(i)
    /\ ~IsBanner(i)
    /\ ExtractedAt(i).is_brief
    /\ ~ExtractedAt(i).has_plan

\* The run that starts at i: the brief entries from i on that only brief
\* entries and entries that render no parts separate from i; i starts a run
\* when it is in the run of no earlier entry.
RunOf(i) ==
    {j \in i..Len(log) :
        /\ BriefEntry(j)
        /\ \A m \in i..j : BriefEntry(m) \/ RendersNoParts(m)}
StartsRun(i) ==
    /\ BriefEntry(i)
    /\ ~\E h \in 1..(i - 1) : i \in RunOf(h)

\* The entries after the run of i that the run does not pass over: the
\* first of them is where the run stops.
BeyondRun(i) == {m \in i..Len(log) : ~BriefEntry(m) /\ ~RendersNoParts(m)}

\* The texts of the entries of a set, in log order, a line each.
RECURSIVE TextsOf(_, _)
TextsOf(run, i) ==
    IF i > Len(log) THEN <<>>
    ELSE (IF i \in run
          THEN [p \in 1..Len(log[i].content) |-> Line("text", 0, log[i].content[p].text)]
          ELSE <<>>)
         \o TextsOf(run, i + 1)
SectionLines(sec) == SubSeq(output_lines, sec.first, sec.last)
SectionsOf(run) ==
    {k \in 1..Len(sections) :
        \E p \in 1..Len(sections[k].entries) : sections[k].entries[p] \in run}

\* C4: a run of n >= 2 brief assistant entries without plan result,
\* separated only by entries that render no parts, gives exactly one
\* 'Claude Progress' section with the n texts in log order and no section
\* of its own for any of them; the entry at which the run stops is rendered
\* as a section of its own (for a banner, the compaction section); a brief
\* entry with nothing to batch with is rendered as a normal section.
C4_OneProgressSection ==
    phase = "rendered" =>
        \A i \in 1..Len(log) : StartsRun(i) =>
            /\ Cardinality(RunOf(i)) >= 2 =>
                  /\ \E k \in 1..Len(sections) :
                        /\ SectionsOf(RunOf(i)) = {k}
                        /\ sections[k].kind = "progress"
                        /\ SectionLines(sections[k]) =
                              <<Mark("progress_header"), Blank>>
                              \o TextsOf(RunOf(i), 1) \o EndOfSection
                  /\ BeyondRun(i) # {} =>
                        \E k \in 1..Len(sections) :
                            /\ sections[k].kind \in {"regular", "compacted"}
                            /\ sections[k].entries = <<Least(BeyondRun(i))>>
            /\ Cardinality(RunOf(i)) = 1 =>
                  \E k \in 1..Len(sections) :
                      /\ SectionsOf({i}) = {k}
                      /\ sections[k].kind = "regular"
                      /\ sections[k].entries = <<i>>

----------------------------------------------------------------------------
(* The link below an approved plan (SpecNav).                              *)

\* The lines of the document that are the header of an approved plan, the
\* headers of numbered user turns, the skip links.
ApprovedHeadersAt == {i \in 1..Len(document) : document[i].k = "plan_approved"}
UserHeadersAt == {i \in 1..Len(document) : document[i].k = "user_header"}
SkipLinksAt == {i \in 1..Len(document) : document[i].k = "skip"}
UserHeadersAfter(i) == {j \in UserHeadersAt : j > i}

\* The skip link right below line i: an empty line, the link, an empty line.
SkipLinkBelow(i, target) ==
    /\ i + 3 <= Len(document)
    /\ document[i + 1] = Blank
    /\ document[i + 2].k = "skip"
    /\ document[i + 2].links = <<Link("skip", Some(target))>>
    /\ document[i + 3] = Blank

\* C26: below the header of every approved plan that a numbered user turn
\* follows stands one skip link, to the first such turn; no skip link stands
\* below an approved plan that no numbered user turn follows, nor anywhere
\* else in a document whose user turns are short.
C26_SkipAfterApproved ==
    phase = "rendered" =>
        /\ \A i \in ApprovedHeadersAt :
               UserHeadersAfter(i) # {} =>
                   SkipLinkBelow(i, document[Least(UserHeadersAfter(i))].n)
        /\ SkipLinksAt = {i + 2 : i \in {h \in ApprovedHeadersAt : UserHeadersAfter(h) # {}}}

\* Two approved plans, a numbered user turn before the first and one after
\* it: the first has its link to the turn after it, the second has none.
C26_Witness ==
    /\ phase = "rendered"
    /\ Cardinality(ApprovedHeadersAt) = 2
    /\ Cardinality(SkipLinksAt) = 1
    /\ \E i \in ApprovedHeadersAt :
           /\ \E j \in UserHeadersAt : j < i
           /\ UserHeadersAfter(i) # {}
           /\ SkipLinkBelow(i, document[Least(UserHeadersAfter(i))].n)
           /\ document[Least(UserHeadersAfter(i))].n > 0

----------------------------------------------------------------------------
(* The links that skip a long user turn (SpecSkip).                        *)

\* The numbered user turns of the rendering before the links are added, in
\* order: <<line number of the header, number of the turn>>.
RenderedTurns == UserPositions(output_lines)

\* The last line of the section that the header at line p opens.
SectionEnd(p) ==
    IF \E q \in (p + 1)..(Len(output_lines) - 1) : output_lines[q + 1].k \in SectionHeaders
    THEN Least({q \in (p + 1)..(Len(output_lines) - 1) :
                   output_lines[q + 1].k \in SectionHeaders}) - 1
    ELSE Len(output_lines) - 1

\* The section of the j-th numbered turn holds a line of one of the kinds.
TurnShows(j, kinds) ==
    \E q \in RenderedTurns[j][1]..SectionEnd(RenderedTurns[j][1]) :
        output_lines[q + 1].k \in kinds

\* The gap between the header of the j-th numbered turn and the next one.
GapAfter(j) == RenderedTurns[j + 1][1] - RenderedTurns[j][1]

\* The numbers of the turns that a next numbered turn follows more than
\* GapLimit lines below, and that show no line of the kinds.
LongTurnsWithout(kinds) ==
    {RenderedTurns[j][2] : j \in {x \in 1..(Len(RenderedTurns) - 1) :
                                     GapAfter(x) > GapLimit /\ ~TurnShows(x, kinds)}}

\* The skip links of the document that stand below no approved plan.
SkipAheadAt ==
    {i \in SkipLinksAt : ~(i > 2 /\ document[i - 2].k = "plan_approved")}
\* The turns they skip: the link of turn n goes to turn n + 1.
SkippedTurns == {Val(document[i].links[1].target) - 1 : i \in SkipAheadAt}

C27_StatusTurnSkipped ==
    /\ phase = "rendered"
    /\ \E j \in 1..(Len(RenderedTurns) - 1) :
           /\ TurnShows(j, {"plan_status"})
           /\ RenderedTurns[j][2] \in SkippedTurns

\* C28: every skip-ahead link of the document stands directly below the
\* header and the timestamp line of the turn it skips (header, timestamp
\* line, empty line, link), whatever links and placeholders come before.
C28_LinksBelowOwnHeader ==
    phase = "rendered" =>
        \A i \in SkipAheadAt :
            /\ i > 3
            /\ document[i - 3].k = "user_header"
            /\ document[i - 3].n = Val(document[i].links[1].target) - 1
            /\ document[i - 2] = Blank
            /\ document[i - 1] = Blank

\* The link of a turn stands between the header and the timestamp line: an
\* approved plan comes before the turn.
LinkAboveTimestamp ==
    /\ phase = "rendered"
    /\ \E i \in SkipAheadAt :
           /\ i > 2
           /\ document[i - 2].k = "user_header"
           /\ document[i - 2].n = Val(document[i].links[1].target) - 1
\* The link of a turn stands below the first line of its text: a rejected
\* plan whose placeholder holds no link comes before the turn.
LinkBelowFirstLine ==
    /\ phase = "rendered"
    /\ \E i \in SkipAheadAt :
           /\ i > 4
           /\ document[i - 4].k = "user_header"
           /\ document[i - 4].n = Val(document[i].links[1].target) - 1
           /\ document[i - 2].k = "text"

----------------------------------------------------------------------------
(* Two calls of format_jsonl, one after the other (SpecTwice).             *)

\* The most entries a log of the two calls has.
MaxLogLen == 2

TwiceShapes == {"prompt", "read", "output", "submit", "rejected"}

\* tool_id_to_name = {} (1020), and the same in extract_message_content
\* (768-771): a call starts from an empty dictionary, whatever an earlier
\* call has left in its own.
NamesLeft(left) == left
NewNames(left) == NoNames

\* format_jsonl up to line 1146, called after a call that left a dictionary.
RenderBodyAfter(es, tools, left) ==
    The({LoopFrom(es, ctx, Loop(1, Preamble(es), 0, {}, NewNames(left), <<>>)) :
            ctx \in {Context(es, tools)}})

InitTwice ==
    /\ phase = "start"
    /\ log = <<>>
    /\ show_tools = FALSE
    /\ output_lines = <<>>
    /\ document = <<>>
    /\ plan_turns = {}
    /\ options = <<>>
    /\ extracted = <<>>
    /\ tool_id_to_name = NoNames
    /\ earlier = <<>>
    /\ sections = <<>>
    /\ OnlyRender

\* format_jsonl(input_path, show_tools=tools) on a file whose entries are es.
Invoke(es, tools, after) ==
    /\ phase' = after
    /\ log' = es
    /\ show_tools' = tools
    /\ earlier' = IF phase = "start" THEN <<>>
                  ELSE <<[log |-> log, show_tools |-> show_tools, document |-> document]>>
    /\ \E body \in {RenderBodyAfter(es, tools, tool_id_to_name)} :
          /\ output_lines' = body.out
          /\ sections' = body.secs
          /\ plan_turns' = body.user_has_plan
          /\ tool_id_to_name' = body.names
          /\ document' = The({AddNavigationLinks(body.out, epm, body.user_has_plan) :
                                 epm \in {ExitPlanModesOf(es)}})
    /\ UNCHANGED <<options, extracted, exceptRender>>

FirstCall(es, tools) == phase = "start" /\ Invoke(es, tools, "once")
SecondCall(es, tools) == phase = "once" /\ Invoke(es, tools, "twice")

NextTwice ==
    \E ss \in SeqsUpTo(TwiceShapes, MaxLogLen), tools \in BOOLEAN :
        \/ FirstCall(Messages(ss), tools)
        \/ SecondCall(Messages(ss), tools)

SpecTwice == InitTwice /\ [][NextTwice]_vars

\* The document of a call that nothing precedes.
DocumentOf(es, tools) ==
    The({AddNavigationLinks(body.out, ExitPlanModesOf(es), body.user_has_plan) :
            body \in {RenderBody(es, tools)}})

C17_SameTwice ==
    /\ phase = "twice"
    /\ log = Messages(<<"read", "output">>)
    /\ earlier[1].log = log
    /\ earlier[1].show_tools = show_tools
    /\ show_tools
    /\ earlier[1].document = document

----------------------------------------------------------------------------
(* What extract_message_content shows of the blocks of one entry           *)
(* (SpecShow).                                                             *)

\* The most blocks the entry has.
MaxBlocks == 2

TaskUse(id, subagent_type) ==
    [ToolUse("Task", id) EXCEPT !.input = [NoInput EXCEPT !.subagent_type = subagent_type]]
Thinking(text) == Item("thinking", "", "", text)

\* The blocks of the entry: an announcement, a heading, a long text, a
\* thinking block, and the invocation and the outcome of Read, of an Explore
\* agent, of another subagent, of a multiple-choice question and of a plan
\* submission.
ShowBlocks ==
    {TextItem(StatusText), TextItem(HeadingText), TextItem(EssayText),
     Thinking(DoneText),
     ToolUse("Read", "toolu_r"), ToolResult("toolu_r", OkText),
     TaskUse("toolu_e", "Explore"), ToolResult("toolu_e", OkText),
     TaskUse("toolu_g", "general-purpose"), ToolResult("toolu_g", OkText),
     ToolUse("AskUserQuestion", "toolu_q"), ToolResult("toolu_q", <<"A">>),
     ToolUse("ExitPlanMode", "toolu_1"), ToolResult("toolu_1", RejectedText)}

AllOptions == {Options(t, e, g) : t \in BOOLEAN, e \in BOOLEAN, g \in BOOLEAN}

InitShow ==
    /\ phase = "extract"
    /\ log \in {<<Message("assistant", blocks)>> : blocks \in SeqsUpTo(ShowBlocks, MaxBlocks)}
    /\ show_tools \in BOOLEAN
    /\ options \in AllOptions
    /\ extracted = <<>>
    /\ output_lines = <<>>
    /\ document = <<>>
    /\ plan_turns = {}
    /\ tool_id_to_name = <<>>
    /\ earlier = <<>>
    /\ sections = <<>>
    /\ OnlyRender

\* extract_message_content(entry, show_tools, show_thinking, ...) on the one
\* entry of the log, with the dictionaries parse_entries built from the log
\* and no tool_id_to_name.
CallExtractMessageContent ==
    /\ phase = "extract"
    /\ phase' = "extracted"
    /\ extracted' = ExtractMessageContent(log[1], ContextWith(log, show_tools, options),
                                          NoNames)
    /\ UNCHANGED <<log, show_tools, options, output_lines, document, plan_turns,
                   tool_id_to_name, earlier, sections, exceptRender>>

NextShow == CallExtractMessageContent

SpecShow == InitShow /\ [][NextShow]_vars

\* The kinds of the lines of the parts returned.
ShownKinds ==
    UNION {{extracted.parts[p][q].k : q \in 1..Len(extracted.parts[p])} :
              p \in 1..Len(extracted.parts)} \ {""}

\* The lines of a tool invocation, of a tool outcome, of a thinking block.
ToolCallKinds == {"tool", "tool_input"}
ToolOutcomeKinds == {"result_header", "error_header", "result_text", "quote",
                     "empty_result"}
ThinkingKinds == {"thinking_intro", "thinking"}

\* The entry invokes, or holds the outcome of, a subagent of the kind that
\* the option of the name shows in full.
HasExplore == \E p \in 1..Len(log[1].content) : log[1].content[p].id = "toolu_e"
HasSubagent == \E p \in 1..Len(log[1].content) : log[1].content[p].id = "toolu_g"

\* C16: extract_message_content returns the lines of a tool invocation or of
\* a tool outcome (other than questions, the submission marker and plan
\* outcomes) only when show_tools is on, or show_explore_full for an Explore
\* agent of the entry, or show_subagents_full for another subagent of the
\* entry; and the lines of a thinking block only when show_thinking is on.
C16_HiddenByDefault ==
    phase = "extracted" =>
        /\ ShownKinds \cap (ToolCallKinds \cup ToolOutcomeKinds) # {} =>
               \/ show_tools
               \/ options.show_explore_full /\ HasExplore
               \/ options.show_subagents_full /\ HasSubagent
        /\ ShownKinds \cap ThinkingKinds # {} => options.show_thinking

\* The text is_brief_message is called with, stripped.
FullText == Strip(Join(extracted.parts))
\* A line of the text is a markdown heading.
HoldsHeading(text) ==
    \E i \in 1..Len(text) :
        text[i].k = "text" /\ text[i].t # <<>> /\ Head(text[i].t) = "#"
\* An empty line between two lines of the text.
HasParagraphBreak(text) == \E i \in 2..(Len(text) - 1) : text[i].k = ""

\* C22: the entry is flagged brief exactly when it carries no plan result and
\* its text either begins with an action announcement and has at most 200
\* characters, or has at most 300 characters, no heading and no paragraph
\* break.
C22_BriefAsStated ==
    phase = "extracted" =>
        (extracted.is_brief <=>
            /\ ~extracted.has_plan
            /\ \/ IsActionAnnouncement(FullText) /\ LinesChars(FullText) <= ActionLimit
               \/ /\ LinesChars(FullText) <= BriefLimit
                  /\ ~HoldsHeading(FullText)
                  /\ ~HasParagraphBreak(FullText))

\* A short text with a heading on its second line, flagged brief.
HeadingOnLaterLine ==
    /\ phase = "extracted"
    /\ log[1].content = <<TextItem(StatusText), TextItem(HeadingText)>>
    /\ extracted.is_brief

\* A heading and a Read invocation that is not shown, flagged brief.
HeadingBeforeTool ==
    /\ phase = "extracted"
    /\ log[1].content = <<TextItem(HeadingText), ToolUse("Read", "toolu_r")>>
    /\ ~show_tools
    /\ extracted.is_brief

\* The lines of a text block; of a tool invocation, the questions and the
\* submission marker among them; of a tool outcome, a plan result among them.
TextKinds == {"text"}
InvocationKinds ==
    ToolCallKinds \cup {"question_intro", "ask_question", "ask_custom", "ask_option",
                        "ask_selected", "submit"}
OutcomeKinds == ShownKinds \ (TextKinds \cup InvocationKinds \cup ThinkingKinds
                                \cup {"marker"})
OnlyShown(kinds) == ShownKinds # {} /\ ShownKinds \subseteq kinds

\* C23: the content type returned is "text" when only text blocks were
\* rendered, "tool_call" when only tool invocations were, "tool_result" when
\* only tool outcomes were, and "mixed" in every other case.
C23_TagByRendered ==
    phase = "extracted" =>
        extracted.content_type =
            IF OnlyShown(TextKinds) THEN "text"
            ELSE IF OnlyShown(InvocationKinds) THEN "tool_call"
            ELSE IF OnlyShown(OutcomeKinds) THEN "tool_result"
            ELSE "mixed"

\* A text and a Read invocation that is not shown: the text alone is
\* rendered and the content type is "mixed".
TextWithHiddenTool ==
    /\ phase = "extracted"
    /\ log[1].content = <<TextItem(StatusText), ToolUse("Read", "toolu_r")>>
    /\ ~show_tools
    /\ ShownKinds = TextKinds
    /\ extracted.content_type = "mixed"

\* With every option off, an entry with a Read and a question shows the
\* question and nothing of the Read.
C16_Witness ==
    /\ phase = "extracted"
    /\ ~show_tools
    /\ options = DefaultOptions
    /\ log[1].content = <<ToolUse("Read", "toolu_r"), ToolUse("AskUserQuestion", "toolu_q")>>
    /\ "ask_question" \in ShownKinds
    /\ ShownKinds \cap (ToolCallKinds \cup ToolOutcomeKinds) = {}

\* With show_explore_full alone, the Explore agent's invocation is shown.
C16_ExploreShown ==
    /\ phase = "extracted"
    /\ ~show_tools
    /\ options = Options(FALSE, TRUE, FALSE)
    /\ log[1].content = <<TaskUse("toolu_e", "Explore"), ToolUse("Read", "toolu_r")>>
    /\ extracted.parts = <<<<Blank, Line("tool", 0, <<"Task">>)>>,
                           <<Line("tool_input", 0, <<"Task">>)>>>>

----------------------------------------------------------------------------
(* Every entry rendered once (SpecBatch).                                  *)

\* The parts of the entries of a progress section, each joined and stripped.
RECURSIVE StrippedPartsOf(_, _)
StrippedPartsOf(of, p) ==
    IF p > Len(of) THEN <<>>
    ELSE Strip(Join(ExtractedAt(of[p]).parts)) \o StrippedPartsOf(of, p + 1)

\* Section k holds the parts of its entries under one header: a regular
\* section those of its one entry, the compaction section the banner's
\* rendering, a progress section those of its entries in log order.
HoldsItsParts(k) ==
    /\ sections[k].entries # <<>>
    /\ output_lines[sections[k].first].k \in SectionHeaders
    /\ \A q \in (sections[k].first + 1)..sections[k].last :
           output_lines[q].k \notin SectionHeaders
    /\ IF sections[k].kind = "regular"
       THEN /\ Len(sections[k].entries) = 1
            /\ SubSeq(output_lines, sections[k].first + 1, sections[k].last) =
                  <<Blank>> \o Join(ExtractedAt(sections[k].entries[1]).parts)
                     \o EndOfSection
       ELSE IF sections[k].kind = "compacted"
       THEN /\ Len(sections[k].entries) = 1
            /\ IsBanner(sections[k].entries[1])
            /\ SectionLines(sections[k]) =
                  <<Mark("compacted_header"), Blank, Mark("rule"), Blank>>
       ELSE SectionLines(sections[k]) =
               <<Mark("progress_header"), Blank>>
               \o StrippedPartsOf(sections[k].entries, 1) \o EndOfSection

\* The sections follow the preamble and each other without a line between.
SectionsFillBody ==
    /\ Len(output_lines) =
          IF sections = <<>> THEN Len(Preamble(log)) ELSE sections[Len(sections)].last
    /\ \A k \in 1..Len(sections) :
           sections[k].first =
              IF k = 1 THEN Len(Preamble(log)) + 1 ELSE sections[k - 1].last + 1

\* The entries of the sections, section after section, are in log order.
InLogOrder ==
    /\ \A k \in 1..Len(sections) : \A p, q \in 1..Len(sections[k].entries) :
           p < q => sections[k].entries[p] < sections[k].entries[q]
    /\ \A j, k \in 1..Len(sections) :
           j < k => sections[j].entries[Len(sections[j].entries)] < sections[k].entries[1]

\* C15: the body is the preamble followed by the sections; every entry that
\* renders a part is in exactly one section, which holds its parts once (a
\* section of its own, or a progress section with the parts of each of its
\* entries, stripped), the sections are in log order, and an entry that
\* renders no part is in no section; the document returned is that body.
C15_EveryEntryOnce ==
    phase = "rendered" =>
        /\ \A i \in 1..Len(log) :
               Cardinality(SectionsOf({i})) = IF RendersNoParts(i) THEN 0 ELSE 1
        /\ \A k \in 1..Len(sections) : HoldsItsParts(k)
        /\ InLogOrder
        /\ SectionsFillBody
        /\ document = output_lines

\* A log with an entry that renders nothing between two entries batched into
\* a progress section, and a section of its own for a third.
C15_Witness ==
    /\ phase = "rendered"
    /\ Len(log) = 4
    /\ RendersNoParts(2)
    /\ Len(sections) = 2
    /\ sections[1].kind = "progress"
    /\ sections[1].entries = <<1, 3>>
    /\ sections[2].kind = "regular"
    /\ sections[2].entries = <<4>>

----------------------------------------------------------------------------
(* The numbering of the user turns (SpecNav).                              *)

\* The sections that render an entry of role user under a header of their
\* own, as positions of sections (render order).
UserSections ==
    {k \in 1..Len(sections) :
        sections[k].kind = "regular" /\ log[sections[k].entries[1]].role = "user"}

\* The number of user sections before section k.
TurnOf(k) == Cardinality({j \in UserSections : j < k})

\* One of the parts section k renders is the outcome of a plan.
ShowsPlanOutcome(k) ==
    \E q \in sections[k].first..sections[k].last :
        output_lines[q].k \in {"plan_approved", "plan_rejected"}

\* C14: every section of a user entry opens with the header "USER #n", n
\* counting the user sections before it (0, 1, 2, ... in render order), and
\* user_has_plan (plan_turns) holds n exactly when the section shows a plan outcome.
C14_NumberedUserTurns ==
    phase = "rendered" =>
        /\ \A k \in UserSections :
               output_lines[sections[k].first] = Line("user_header", TurnOf(k), <<>>)
        /\ plan_turns = {TurnOf(k) : k \in {j \in UserSections : ShowsPlanOutcome(j)}}

----------------------------------------------------------------------------
(* The outcomes of tools (SpecTool).                                       *)

\* Block p of entry i is the outcome of a tool.
IsOutcome(i, p) == ~log[i].str /\ log[i].content[p].type = "tool_result"

\* The entries with an invocation that has this id.
InvokedAt(id) ==
    {h \in 1..Len(log) :
        /\ ~log[h].str
        /\ \E p \in 1..Len(log[h].content) :
              /\ log[h].content[p].type = "tool_use"
              /\ log[h].content[p].id = id}

\* Entry i has a section of its own that shows the outcome with this text
\* through format_tool_result under the name 'unknown'.
ShownAsUnknown(i, text) ==
    \E k \in 1..Len(sections) :
        /\ sections[k].kind = "regular"
        /\ sections[k].entries = <<i>>
        /\ SectionLines(sections[k]) =
              <<Mark("tool_result_header"), Blank,
                Blank, Line("result_header", 0, <<"unknown">>), Blank>>
              \o FormatToolResult("unknown", text, FALSE)
              \o EndOfSection

\* C8 as stated: with tool visibility on, an outcome whose id is that of no
\* invocation earlier in the log is rendered by the generic formatter under
\* the name 'unknown'.
C8_AsStated ==
    (phase = "rendered" /\ show_tools) =>
        \A i \in 1..Len(log) : \A p \in 1..Len(log[i].content) :
            (/\ IsOutcome(i, p)
             /\ \A h \in InvokedAt(log[i].content[p].id) : h > i)
                => ShownAsUnknown(i, log[i].content[p].text)

\* C8: with tool visibility on, an outcome whose id is that of no invocation
\* anywhere in the log is rendered by the generic formatter under the name
\* 'unknown' (and rendering it raises nothing).
C8_UnmatchedOutcome ==
    (phase = "rendered" /\ show_tools) =>
        \A i \in 1..Len(log) : \A p \in 1..Len(log[i].content) :
            (IsOutcome(i, p) /\ InvokedAt(log[i].content[p].id) = {})
                => ShownAsUnknown(i, log[i].content[p].text)

\* An outcome without invocation has been rendered with the tools shown,
\* after an invocation with another id.
C8_Witness ==
    /\ phase = "rendered" /\ show_tools
    /\ \E i \in 2..Len(log) :
          /\ IsOutcome(i, 1)
          /\ InvokedAt(log[i].content[1].id) = {}
          /\ InvokedAt("toolu_r") # {} /\ \A h \in InvokedAt("toolu_r") : h < i
          /\ ShownAsUnknown(i, log[i].content[1].text)

\* The entries that invoke AskUserQuestion with this id.
AskedAt(id) ==
    {h \in InvokedAt(id) :
        \E p \in 1..Len(log[h].content) :
            /\ log[h].content[p].type = "tool_use"
            /\ log[h].content[p].id = id
            /\ log[h].content[p].name = "AskUserQuestion"}
\* The entries that hold an outcome with this id.
OutcomesAt(id) ==
    {i \in 1..Len(log) :
        \E p \in 1..Len(log[i].content) : IsOutcome(i, p) /\ log[i].content[p].id = id}
\* An outcome with the id comes later in the log than a question with it.
AnsweredLater(id) == \E h \in AskedAt(id) : \E i \in OutcomesAt(id) : i > h

\* The questions of the document, and the lines that show the payload "A"
\* of the outcome of a question as the result of a tool.
QuestionsAt == {i \in 1..Len(document) : document[i].k = "ask_question"}
AnswerResultsAt ==
    {i \in 1..Len(document) : document[i].k = "result_text" /\ document[i].t = <<"A">>}

\* The question at line q shows option 1 ("A") as selected, the other not.
ShowsAnswer(q) ==
    /\ q + 3 <= Len(document)
    /\ document[q + 2] = Line("ask_selected", 1, <<"A">>)
    /\ document[q + 3] = Line("ask_option", 2, <<"B">>)
\* The question at line q shows no option as selected.
ShowsNoAnswer(q) ==
    /\ q + 3 <= Len(document)
    /\ document[q + 2] = Line("ask_option", 1, <<"A">>)
    /\ document[q + 3] = Line("ask_option", 2, <<"B">>)

\* C29: every multiple-choice invocation of the log is rendered as a
\* question; when an outcome with its id comes later in the log than a
\* question with the id, the question shows the payload of that outcome as
\* the selected option, and otherwise it shows no selection; with or
\* without tool visibility, no outcome of a multiple-choice invocation is
\* rendered as the result of a tool.
C29_AnswerInline ==
    phase = "rendered" =>
        /\ AskedAt("toolu_q") # {} => QuestionsAt # {}
        /\ \A q \in QuestionsAt :
               IF AnsweredLater("toolu_q") THEN ShowsAnswer(q) ELSE ShowsNoAnswer(q)
        /\ AskedAt("toolu_q") # {} => AnswerResultsAt = {}

\* With the tools shown, a question, an outcome with another id and then
\* the outcome of the question: the question shows the answer, the other
\* outcome is rendered as a result, the outcome of the question is not.
C29_Witness ==
    /\ phase = "rendered" /\ show_tools
    /\ Len(log) = 3
    /\ AskedAt("toolu_q") = {1}
    /\ OutcomesAt("toolu_q") = {3}
    /\ OutcomesAt("toolu_0") = {2}
    /\ QuestionsAt # {} /\ \A q \in QuestionsAt : ShowsAnswer(q)
    /\ \E i \in 1..Len(document) : document[i].k = "result_header"
    /\ AnswerResultsAt = {}

\* The outcome of a question comes before the question: the question shows
\* no answer and the outcome is not rendered.
EarlyAnswerDropped ==
    /\ phase = "rendered" /\ show_tools
    /\ AskedAt("toolu_q") # {} /\ OutcomesAt("toolu_q") # {}
    /\ ~AnsweredLater("toolu_q")
    /\ \A q \in QuestionsAt : ShowsNoAnswer(q)
    /\ AnswerResultsAt = {}

----------------------------------------------------------------------------
(* The banner of a compacted session (SpecBatch).                          *)

\* The entries of the log with a text (the string content or a text block)
\* that is a compaction banner.
BannersAt ==
    {i \in 1..Len(log) :
        \E p \in 1..Len(log[i].content) :
            /\ log[i].content[p].type = "text"
            /\ IsCompactionMessage(log[i].content[p].text)}
CompactedAt == {i \in 1..Len(document) : document[i].k = "compacted_header"}
MarkersAt == {i \in 1..Len(document) : document[i].k = "marker"}
BannerTextAt ==
    {i \in 1..Len(document) : document[i].k = "text" /\ IsCompactionMessage(document[i].t)}

\* C30: the text of a compaction banner is not rendered, the document shows
\* one 'Session Compacted' section for every entry whose text is a banner,
\* and no line of the document is the internal marker.
C30_BannerBecomesSection ==
    phase = "rendered" =>
        /\ BannerTextAt = {}
        /\ Cardinality(CompactedAt) = Cardinality(BannersAt)
        /\ MarkersAt = {}

\* A banner that follows a brief text of the assistant: the progress
\* section shows the marker and the document has no 'Session Compacted'
\* section.
MarkerInProgress ==
    /\ phase = "rendered"
    /\ Len(log) = 2 /\ BannersAt = {2}
    /\ CompactedAt = {}
    /\ \E i \in MarkersAt : \E h \in 1..(i - 1) :
           /\ document[h].k = "progress_header"
           /\ \A m \in (h + 1)..(i - 1) : document[m].k \notin SectionHeaders
\* A banner at the head of the loop is rendered as the section.
BannerAsSection ==
    /\ phase = "rendered"
    /\ BannersAt # {}
    /\ Cardinality(CompactedAt) = Cardinality(BannersAt)
    /\ MarkersAt = {} /\ BannerTextAt = {}

====
